---- MODULE Spec2Model ----
(***************************************************************************)
(* Fuel tracker backend: the metrics engine behind the write API.          *)
(*                                                                         *)
(* State: the Vehicle and FuelEntry tables, the per-user statistics cache, *)
(* and the response of the last request.  One action per request           *)
(* handler (FuelEntryViewSet.perform_create / perform_update /             *)
(* perform_destroy, VehicleViewSet.perform_update), each including the     *)
(* serializer validation that runs before it and the cascade and cache     *)
(* invalidation that run inside it.  Every handler is @transaction.atomic: *)
(* a request that raises leaves the tables as they were.                   *)
(*                                                                         *)
(* Numbers.  liters and total_amount are whole units.  A Decimal held in   *)
(* memory is an exact fraction <<n, d>> in lowest terms (the 28-digit      *)
(* context precision of Python's Decimal is far below the resolution of    *)
(* the model's inputs and is not modelled).  A Decimal stored in a         *)
(* DecimalField is quantized to the field's decimal_places, half-even, and *)
(* kept as the scaled integer <<v>>.  None is the empty tuple <<>>.        *)
(***************************************************************************)
EXTENDS Integers, Sequences, FiniteSets, TLC

\* ---------------------------------------------------------------- bounds
\* Days are 1..MaxDate, odometer readings 1..MaxOdometer, at most MaxId
\* entries are ever created and at most MaxRequests requests change the
\* tables.  Every fill is of FillLiters liters for FillAmount.
MaxDate == 3
MaxOdometer == 3
MaxId == 3
MaxRequests == 4
FillLiters == 2
FillAmount == 1

Users == {1, 2}
Vehicles == {1, 2}

\* timezone.localdate(): the latest day a request may name without being rejected.
Today == MaxDate

\* A field a PATCH request does not carry.
Absent == -1

None == <<>>

VARIABLES vehicles, entries, next_id, now, stats_cache, stats_version, in_flight,
          requests, response

vars == <<vehicles, entries, next_id, now, stats_cache, stats_version, in_flight,
          requests, response>>

\* ---------------------------------------------------------------- decimals
RECURSIVE GCD(_, _)
GCD(a, b) == IF b = 0 THEN a ELSE GCD(b, a % b)

\* Decimal division of two positive quantities, held in memory.
DecimalDiv(n, d) == LET g == GCD(n, d) IN <<n \div g, d \div g>>

RECURSIVE Pow10(_)
Pow10(k) == IF k = 0 THEN 1 ELSE 10 * Pow10(k - 1)

\* Quantization of a non-negative fraction to `places` decimal places,
\* ROUND_HALF_EVEN, as the integer number of 10^-places units.
RoundHalfEven(n, d) ==
    LET q == n \div d
        r == n % d
    IN  IF 2 * r > d THEN q + 1
        ELSE IF 2 * r < d THEN q
        ELSE IF q % 2 = 0 THEN q ELSE q + 1

Quantize(x, places) ==
    IF x = None THEN None ELSE <<RoundHalfEven(x[1] * Pow10(places), x[2])>>

\* decimal_places of the computed DecimalFields of FuelEntry.
UnitPricePlaces == 3
ConsumptionPlaces == 1
CostPerKmPlaces == 4

\* ---------------------------------------------------------------- ordering
\* order_by('entry_date', 'created_at'): a strictly before b.
Before(a, b) ==
    \/ a.entry_date < b.entry_date
    \/ a.entry_date = b.entry_date /\ a.created_at < b.created_at

\* The last element of a non-empty set of entry ids under order_by(entry_date, created_at).
Last(E, S) == CHOOSE i \in S : \A j \in S \ {i} : Before(E[j], E[i])

\* The first element of a non-empty set of entry ids under order_by(entry_date, created_at).
First(E, S) == CHOOSE i \in S : \A j \in S \ {i} : Before(E[i], E[j])

\* list(queryset.order_by('entry_date', 'created_at')) over the ids in S.
RECURSIVE OrderBy(_, _)
OrderBy(E, S) ==
    IF S = {} THEN <<>>
    ELSE LET f == First(E, S) IN <<f>> \o OrderBy(E, S \ {f})

\* get_previous_entry placing the entry at the time of the request whether or
\* not entry_id names a stored entry.
get_previous_entry_marker_now(E, timezone_now, vehicle_id, entry_date, entry_id) ==
    LET previous_entries ==
            {i \in DOMAIN E :
                /\ E[i].vehicle = vehicle_id
                /\ (entry_id # 0 => i # entry_id)
                /\ \/ E[i].entry_date < entry_date
                   \/ E[i].entry_date = entry_date /\ E[i].created_at < timezone_now}
    IN  IF previous_entries = {} THEN 0 ELSE Last(E, previous_entries)

\* FuelEntryMetricsService.get_previous_entry; 0 is "no entry".
get_previous_entry(E, timezone_now, vehicle_id, entry_date, entry_id) ==
    LET entry_created_at ==
            IF entry_id \in DOMAIN E THEN E[entry_id].created_at ELSE timezone_now
        previous_entries ==
            {i \in DOMAIN E :
                /\ E[i].vehicle = vehicle_id
                /\ (entry_id # 0 => i # entry_id)
                /\ \/ E[i].entry_date < entry_date
                   \/ E[i].entry_date = entry_date /\ E[i].created_at < entry_created_at}
    IN  IF previous_entries = {} THEN 0 ELSE Last(E, previous_entries)

\* FuelEntryMetricsService.get_next_entry; 0 is "no entry".
get_next_entry(E, timezone_now, vehicle_id, entry_date, entry_id) ==
    LET entry_created_at ==
            IF entry_id \in DOMAIN E THEN E[entry_id].created_at ELSE timezone_now
        next_entries ==
            {i \in DOMAIN E :
                /\ E[i].vehicle = vehicle_id
                /\ (entry_id # 0 => i # entry_id)
                /\ \/ E[i].entry_date > entry_date
                   \/ E[i].entry_date = entry_date /\ E[i].created_at > entry_created_at}
    IN  IF next_entries = {} THEN 0 ELSE First(E, next_entries)

\* ---------------------------------------------------------------- calculator
\* The query calculate_metrics runs when it is given no previous entry:
\* filter(vehicle, entry_date__lt).order_by('-entry_date', '-created_at').first()
LookupPrevious(E, fuel_entry) ==
    LET earlier == {i \in DOMAIN E :
                        /\ E[i].vehicle = fuel_entry.vehicle
                        /\ E[i].entry_date < fuel_entry.entry_date}
    IN  IF earlier = {} THEN 0 ELSE Last(E, earlier)

\* calculate_metrics adding the distance to the one already stored.
calculate_metrics_accumulating(E, fuel_entry, previous_entry) ==
    LET unit_price == DecimalDiv(fuel_entry.total_amount, fuel_entry.liters)
        prev == IF previous_entry = 0 THEN LookupPrevious(E, fuel_entry) ELSE previous_entry
        stored == IF fuel_entry.distance_since_last = None THEN 0
                  ELSE fuel_entry.distance_since_last[1]
        distance == stored + fuel_entry.odometer - E[prev].odometer
    IN  IF prev = 0
        THEN [unit_price |-> unit_price, distance_since_last |-> None,
              consumption_l_100km |-> None, cost_per_km |-> None, previous_entry |-> 0]
        ELSE IF distance > 0
        THEN [unit_price |-> unit_price, distance_since_last |-> <<distance>>,
              consumption_l_100km |-> DecimalDiv(fuel_entry.liters * 100, distance),
              cost_per_km |-> DecimalDiv(fuel_entry.total_amount, distance),
              previous_entry |-> prev]
        ELSE [unit_price |-> unit_price, distance_since_last |-> <<distance>>,
              consumption_l_100km |-> None, cost_per_km |-> None, previous_entry |-> prev]

\* calculate_metrics without the factor 100 of the consumption.
calculate_metrics_per_km(E, fuel_entry, previous_entry) ==
    LET unit_price == DecimalDiv(fuel_entry.total_amount, fuel_entry.liters)
        prev == IF previous_entry = 0 THEN LookupPrevious(E, fuel_entry) ELSE previous_entry
        distance == fuel_entry.odometer - E[prev].odometer
    IN  IF prev = 0
        THEN [unit_price |-> unit_price, distance_since_last |-> None,
              consumption_l_100km |-> None, cost_per_km |-> None, previous_entry |-> 0]
        ELSE IF distance > 0
        THEN [unit_price |-> unit_price, distance_since_last |-> <<distance>>,
              consumption_l_100km |-> DecimalDiv(fuel_entry.liters, distance),
              cost_per_km |-> DecimalDiv(fuel_entry.total_amount, distance),
              previous_entry |-> prev]
        ELSE [unit_price |-> unit_price, distance_since_last |-> <<distance>>,
              consumption_l_100km |-> None, cost_per_km |-> None, previous_entry |-> prev]

\* calculate_metrics dividing by the magnitude of any distance other than zero.
calculate_metrics_nonzero(E, fuel_entry, previous_entry) ==
    LET unit_price == DecimalDiv(fuel_entry.total_amount, fuel_entry.liters)
        prev == IF previous_entry = 0 THEN LookupPrevious(E, fuel_entry) ELSE previous_entry
        distance == fuel_entry.odometer - E[prev].odometer
        magnitude == IF distance < 0 THEN -distance ELSE distance
    IN  IF prev = 0
        THEN [unit_price |-> unit_price, distance_since_last |-> None,
              consumption_l_100km |-> None, cost_per_km |-> None, previous_entry |-> 0]
        ELSE IF distance # 0
        THEN [unit_price |-> unit_price, distance_since_last |-> <<distance>>,
              consumption_l_100km |-> DecimalDiv(fuel_entry.liters * 100, magnitude),
              cost_per_km |-> DecimalDiv(fuel_entry.total_amount, magnitude),
              previous_entry |-> prev]
        ELSE [unit_price |-> unit_price, distance_since_last |-> <<distance>>,
              consumption_l_100km |-> None, cost_per_km |-> None, previous_entry |-> prev]

\* calculate_metrics taking a missing previous entry for a reading of 0 km.
calculate_metrics_from_zero(E, fuel_entry, previous_entry) ==
    LET unit_price == DecimalDiv(fuel_entry.total_amount, fuel_entry.liters)
        prev == IF previous_entry = 0 THEN LookupPrevious(E, fuel_entry) ELSE previous_entry
        distance == IF prev = 0 THEN fuel_entry.odometer
                    ELSE fuel_entry.odometer - E[prev].odometer
    IN  IF distance > 0
        THEN [unit_price |-> unit_price, distance_since_last |-> <<distance>>,
              consumption_l_100km |-> DecimalDiv(fuel_entry.liters * 100, distance),
              cost_per_km |-> DecimalDiv(fuel_entry.total_amount, distance),
              previous_entry |-> prev]
        ELSE [unit_price |-> unit_price, distance_since_last |-> <<distance>>,
              consumption_l_100km |-> None, cost_per_km |-> None, previous_entry |-> prev]

\* FuelEntryMetricsService.calculate_metrics: the four computed attributes as
\* held in memory, and the previous entry the computation used (0: none).
calculate_metrics(E, fuel_entry, previous_entry) ==
    LET unit_price == DecimalDiv(fuel_entry.total_amount, fuel_entry.liters)
        prev == IF previous_entry = 0 THEN LookupPrevious(E, fuel_entry) ELSE previous_entry
        distance == fuel_entry.odometer - E[prev].odometer
    IN  IF prev = 0
        THEN [unit_price |-> unit_price, distance_since_last |-> None,
              consumption_l_100km |-> None, cost_per_km |-> None, previous_entry |-> 0]
        ELSE IF distance > 0
        THEN [unit_price |-> unit_price, distance_since_last |-> <<distance>>,
              consumption_l_100km |-> DecimalDiv(fuel_entry.liters * 100, distance),
              cost_per_km |-> DecimalDiv(fuel_entry.total_amount, distance),
              previous_entry |-> prev]
        ELSE [unit_price |-> unit_price, distance_since_last |-> <<distance>>,
              consumption_l_100km |-> None, cost_per_km |-> None, previous_entry |-> prev]

\* save(update_fields=[unit_price, distance_since_last, consumption_l_100km,
\* cost_per_km]) / bulk_update: the row after the computed attributes m are written.
SaveMetrics(row, m) ==
    [row EXCEPT !.unit_price = Quantize(m.unit_price, UnitPricePlaces),
                !.distance_since_last = m.distance_since_last,
                !.consumption_l_100km = Quantize(m.consumption_l_100km, ConsumptionPlaces),
                !.cost_per_km = Quantize(m.cost_per_km, CostPerKmPlaces)]

\* The loop of recalculate_metrics_after_entry over the ordered ids in seq.
RECURSIVE RecalculateEach(_, _)
RecalculateEach(E, seq) ==
    IF seq = <<>> THEN E
    ELSE LET i == Head(seq)
             m == calculate_metrics(E, E[i], 0)
         IN  RecalculateEach([E EXCEPT ![i] = SaveMetrics(E[i], m)], Tail(seq))

\* recalculate_metrics_after_entry over every entry of the vehicle.
recalculate_metrics_after_entry_all(E, fuel_entry) ==
    RecalculateEach(E, OrderBy(E, {i \in DOMAIN E : E[i].vehicle = fuel_entry.vehicle}))

\* FuelEntryMetricsService.recalculate_metrics_after_entry
recalculate_metrics_after_entry(E, fuel_entry) ==
    LET entries_to_recalculate ==
            {i \in DOMAIN E :
                /\ E[i].vehicle = fuel_entry.vehicle
                /\ E[i].entry_date > fuel_entry.entry_date}
    IN  RecalculateEach(E, OrderBy(E, entries_to_recalculate))

\* The loop of recalculate_all_metrics_for_vehicle: previous_entry is the entry
\* visited just before (0 for the first one).
RECURSIVE RecalculateChain(_, _, _)
RecalculateChain(E, seq, previous_entry) ==
    IF seq = <<>> THEN E
    ELSE LET i == Head(seq)
             m == calculate_metrics(E, E[i], previous_entry)
         IN  RecalculateChain([E EXCEPT ![i] = SaveMetrics(E[i], m)], Tail(seq), i)

\* recalculate_all_metrics_for_vehicle leaving the stored attributes as they are.
recalculate_all_metrics_for_vehicle_skipped(E, V, vehicle_id) == E

\* FuelEntryMetricsService.recalculate_all_metrics_for_vehicle
recalculate_all_metrics_for_vehicle(E, V, vehicle_id) ==
    IF vehicle_id \notin DOMAIN V THEN E
    ELSE RecalculateChain(E, OrderBy(E, {i \in DOMAIN E : E[i].vehicle = vehicle_id}), 0)

\* ---------------------------------------------------------------- validation
Ok == [code |-> "ok", detail |-> <<>>]

\* _validate_odometer_monotonicity comparing with the previous entry before the
\* initial odometer.
validate_odometer_monotonicity_previous_first(E, V, timezone_now, vehicle, odometer, entry_date, exclude_id) ==
    LET previous_entry == get_previous_entry(E, timezone_now, vehicle, entry_date, exclude_id)
        next_entry == get_next_entry(E, timezone_now, vehicle, entry_date, exclude_id)
    IN  IF previous_entry # 0 /\ odometer <= E[previous_entry].odometer
        THEN [code |-> "odometer_le_previous",
              detail |-> <<E[previous_entry].odometer, E[previous_entry].entry_date>>]
        ELSE IF odometer <= V[vehicle].initial_odometer
        THEN [code |-> "odometer_le_initial", detail |-> <<V[vehicle].initial_odometer>>]
        ELSE IF next_entry # 0 /\ odometer >= E[next_entry].odometer
        THEN [code |-> "odometer_ge_next",
              detail |-> <<E[next_entry].odometer, E[next_entry].entry_date>>]
        ELSE Ok

\* FuelEntrySerializer._validate_odometer_monotonicity: the first error raised,
\* with the payload the error carries, or Ok.
validate_odometer_monotonicity(E, V, timezone_now, vehicle, odometer, entry_date, exclude_id) ==
    LET previous_entry == get_previous_entry(E, timezone_now, vehicle, entry_date, exclude_id)
        next_entry == get_next_entry(E, timezone_now, vehicle, entry_date, exclude_id)
    IN  IF odometer <= V[vehicle].initial_odometer
        THEN [code |-> "odometer_le_initial", detail |-> <<V[vehicle].initial_odometer>>]
        ELSE IF previous_entry # 0 /\ odometer <= E[previous_entry].odometer
        THEN [code |-> "odometer_le_previous",
              detail |-> <<E[previous_entry].odometer, E[previous_entry].entry_date>>]
        ELSE IF next_entry # 0 /\ odometer >= E[next_entry].odometer
        THEN [code |-> "odometer_ge_next",
              detail |-> <<E[next_entry].odometer, E[next_entry].entry_date>>]
        ELSE Ok

\* Text a request may carry in fuel_brand or fuel_grade that consists of markup
\* only.
MarkupOnly == "<b></b>"

\* sanitize_text_input: bleach.clean(value, tags=[], strip=True).strip() on the
\* texts explored; markup is removed, plain text is kept.
sanitize_text_input(value) == IF value = MarkupOnly THEN "" ELSE value

\* CharField(trim_whitespace=True) of fuel_brand and fuel_grade: the value sent
\* may not be blank.  It runs before validate_fuel_brand / validate_fuel_grade
\* sanitize the text.
TextErrors(fuel_brand, fuel_grade) == fuel_brand = "" \/ fuel_grade = ""

\* The field validators without validate_total_amount.
FieldErrors_amount_unchecked(entry_date, odometer, liters, total_amount) ==
    \/ entry_date # Absent /\ entry_date > Today
    \/ odometer # Absent /\ odometer <= 0
    \/ liters # Absent /\ liters <= 0

\* The field validators of FuelEntrySerializer (validate_entry_date,
\* validate_odometer, validate_liters, validate_total_amount) on the fields the
\* request carries: TRUE when one of them raises.
FieldErrors(entry_date, odometer, liters, total_amount) ==
    \/ entry_date # Absent /\ entry_date > Today
    \/ odometer # Absent /\ odometer <= 0
    \/ liters # Absent /\ liters <= 0
    \/ total_amount # Absent /\ total_amount <= 0

\* unique_together = ('vehicle', 'entry_date', 'odometer') of FuelEntry: a row
\* other than exclude_id already holds the triple.
UniqueConflict(E, vehicle, entry_date, odometer, exclude_id) ==
    \E i \in DOMAIN E \ {exclude_id} :
        /\ E[i].vehicle = vehicle
        /\ E[i].entry_date = entry_date
        /\ E[i].odometer = odometer

\* Validation of a POST: the field validators, the uniqueness validator, then
\* FuelEntrySerializer.validate (self.instance is None: always check).
ValidateCreate(E, V, timezone_now, vehicle, entry_date, odometer, liters, total_amount) ==
    IF FieldErrors(entry_date, odometer, liters, total_amount)
    THEN [code |-> "invalid", detail |-> <<>>]
    ELSE IF UniqueConflict(E, vehicle, entry_date, odometer, 0)
    THEN [code |-> "unique", detail |-> <<>>]
    ELSE validate_odometer_monotonicity(E, V, timezone_now, vehicle, odometer, entry_date, 0)

\* Validation of a PATCH of entry id: as above, but FuelEntrySerializer.validate
\* checks the ordering only if odometer or vehicle changed.
ValidateUpdate(E, V, timezone_now, id, vehicle, entry_date, odometer, liters, total_amount) ==
    LET instance == E[id]
        new_vehicle == IF vehicle = Absent THEN instance.vehicle ELSE vehicle
        new_odometer == IF odometer = Absent THEN instance.odometer ELSE odometer
        new_date == IF entry_date = Absent THEN instance.entry_date ELSE entry_date
        odometer_changed == odometer # Absent /\ odometer # instance.odometer
        vehicle_changed == vehicle # Absent /\ vehicle # instance.vehicle
    IN  IF FieldErrors(entry_date, odometer, liters, total_amount)
        THEN [code |-> "invalid", detail |-> <<>>]
        ELSE IF UniqueConflict(E, new_vehicle, new_date, new_odometer, id)
        THEN [code |-> "unique", detail |-> <<>>]
        ELSE IF odometer_changed \/ vehicle_changed
        THEN validate_odometer_monotonicity(E, V, timezone_now, new_vehicle, new_odometer,
                                            new_date, id)
        ELSE Ok

\* validate_initial_odometer comparing with the largest reading of the vehicle.
validate_initial_odometer_largest(E, vehicle, value) ==
    LET readings == {E[i].odometer : i \in {j \in DOMAIN E : E[j].vehicle = vehicle}}
    IN  IF readings # {} /\ \A r \in readings : value > r
        THEN [code |-> "initial_odometer_gt_min", detail |-> <<>>]
        ELSE Ok

\* VehicleSerializer.validate_initial_odometer
validate_initial_odometer(E, vehicle, value) ==
    LET readings == {E[i].odometer : i \in {j \in DOMAIN E : E[j].vehicle = vehicle}}
    IN  IF readings # {} /\ \E m \in readings : (\A r \in readings : m <= r) /\ value > m
        THEN [code |-> "initial_odometer_gt_min", detail |-> <<>>]
        ELSE Ok

\* The parameters recalculate_all_metrics_for_vehicle declares, and the keyword
\* arguments VehicleSerializer.update calls it with.
RecalculateAllParameters == {"vehicle_id"}
SerializerCallKeywords == {"vehicle_id", "vehicle_instance"}

\* VehicleSerializer.update once initial_odometer changed: the call raises
\* TypeError when it passes a keyword the callee does not declare.
SerializerRecalculateRaises == ~(SerializerCallKeywords \subseteq RecalculateAllParameters)

\* ---------------------------------------------------------------- state
NoMetrics ==
    [unit_price |-> None, distance_since_last |-> None,
     consumption_l_100km |-> None, cost_per_km |-> None, previous_entry |-> 0]

\* The last request and its response: the handler, the body sent (of a POST:
\* entry_date, odometer, liters, total_amount; of a vehicle PATCH:
\* initial_odometer; of a DELETE: the ordering key of the row deleted), the
\* HTTP status, the error code and its payload, the entry and the vehicle acted
\* on, the computed attributes of the returned entry as held in memory, and
\* whether the request changed a table or the cache.
Response(op, request, status, code, id, vehicle, detail, metrics, effect) ==
    [op |-> op, request |-> request, status |-> status, code |-> code, id |-> id,
     vehicle |-> vehicle, detail |-> detail, metrics |-> metrics, effect |-> effect]

\* _invalidate_statistics_cache: cache.set(stats_version_user_<id>, now).  Every
\* statistics cache key embeds the version it was stored under and the new
\* version is a timestamp no key has held, so whatever the user had cached can
\* no longer be read: stats_cache keeps only what is readable.
invalidate_statistics_cache(cache, user_id) == [cache EXCEPT ![user_id] = {}]

\* The version a statistics read finds when the key stats_version_user_<id> was
\* never set: cache.get(key, 1).
DefaultVersion == 1

\* The value of stats_version_user_<id> after _invalidate_statistics_cache: the
\* timestamp of the request, later than every value the key has held.
next_statistics_version(version, user_id) == [version EXCEPT ![user_id] = @ + 1]

\* The server processes that may each be serving a request.
Workers == {1, 2}

\* The tables after the vehicles were registered: both belong to user 1, one
\* starting at 0 km and one at 1 km.
Init ==
    /\ vehicles = (1 :> [user |-> 1, initial_odometer |-> 0])
                  @@ (2 :> [user |-> 1, initial_odometer |-> 1])
    /\ entries = <<>>
    /\ next_id = 1
    /\ now = 1
    /\ stats_cache = [u \in Users |-> {}]
    /\ stats_version = [u \in Users |-> DefaultVersion]
    /\ in_flight = [w \in Workers |-> None]
    /\ requests = 0
    /\ response = Response("none", <<>>, 0, "", 0, 0, <<>>, NoMetrics, TRUE)

\* A request that fails: its transaction is rolled back.
Fail(op, request, status, code, id, vehicle, detail) ==
    /\ response' = Response(op, request, status, code, id, vehicle, detail, NoMetrics, FALSE)
    /\ UNCHANGED <<vehicles, entries, next_id, now, stats_cache, stats_version, in_flight, requests>>

\* A request is served while the last response had an effect and the budget of
\* requests of the scope lasts.  (A request that changed neither a table nor the
\* cache leaves the system where it was, so the requests that could follow it
\* are those that could have been made in its place: the behaviours explored
\* stop there.)
Serving(sc) == response.effect /\ requests < sc.max_requests

\* ---------------------------------------------------------------- entries
\* POST /fuel-entries: FuelEntrySerializer validation, then
\* FuelEntryViewSet.perform_create.
perform_create(user, vehicle, entry_date, odometer, liters, total_amount, fuel_brand, fuel_grade, max_id) ==
    LET v == IF TextErrors(fuel_brand, fuel_grade) THEN [code |-> "blank", detail |-> <<>>]
             ELSE ValidateCreate(entries, vehicles, now, vehicle, entry_date, odometer,
                                 liters, total_amount)
        id == next_id
        fuel_entry ==
            [vehicle |-> vehicle, user |-> user, entry_date |-> entry_date,
             created_at |-> now, odometer |-> odometer, liters |-> liters,
             total_amount |-> total_amount,
             fuel_brand |-> sanitize_text_input(fuel_brand),
             fuel_grade |-> sanitize_text_input(fuel_grade), unit_price |-> None,
             distance_since_last |-> None, consumption_l_100km |-> None,
             cost_per_km |-> None]
        saved == (id :> fuel_entry) @@ entries
        m == calculate_metrics(saved, fuel_entry, 0)
        computed == [saved EXCEPT ![id] = SaveMetrics(fuel_entry, m)]
        body == <<entry_date, odometer, liters, total_amount>>
    IN  IF v.code # "ok"
        THEN Fail("create_entry", body, 400, v.code, 0, vehicle, v.detail)
        ELSE /\ next_id <= max_id
             /\ entries' = recalculate_metrics_after_entry(computed, computed[id])
             /\ next_id' = next_id + 1
             /\ now' = now + 1
             /\ stats_cache' = invalidate_statistics_cache(stats_cache, user)
             /\ stats_version' = next_statistics_version(stats_version, user)
             /\ requests' = requests + 1
             /\ response' = Response("create_entry", body, 201, "ok", id, vehicle, <<>>, m, TRUE)
             /\ UNCHANGED <<vehicles, in_flight>>

\* The bodies explored: every well-formed one, and one per field validator
\* that carries a value the validator rejects.
WellFormed(max_odometer) ==
    {<<entry_date, odometer, FillLiters, FillAmount>> :
        entry_date \in 1..MaxDate, odometer \in 1..max_odometer}
Malformed ==
    {<<Today + 1, MaxOdometer, FillLiters, FillAmount>>,
     <<Today, 0, FillLiters, FillAmount>>,
     <<Today, MaxOdometer, 0, FillAmount>>,
     <<Today, MaxOdometer, FillLiters, 0>>}

\* PrimaryKeyRelatedField(queryset=Vehicle.objects.all()) of the serializer: the
\* vehicle a request names must exist; whose it is is not looked at.
create_entry(sc) ==
    /\ Serving(sc)
    /\ \E user \in sc.creators, vehicle \in sc.vehicles,
          f \in WellFormed(sc.max_odometer) \cup Malformed, l \in sc.labels :
            IF vehicle \notin DOMAIN vehicles
            THEN Fail("create_entry", f, 400, "does_not_exist", 0, vehicle, <<>>)
            ELSE perform_create(user, vehicle, f[1], f[2], f[3], f[4], l[1], l[2], sc.max_id)

\* PATCH /fuel-entries/<id>: FuelEntrySerializer validation, then
\* FuelEntryViewSet.perform_update.
perform_update(id, vehicle, entry_date, odometer, liters, total_amount) ==
    LET v == ValidateUpdate(entries, vehicles, now, id, vehicle, entry_date, odometer,
                            liters, total_amount)
        instance == entries[id]
        fuel_entry ==
            [instance EXCEPT
                !.vehicle = IF vehicle = Absent THEN @ ELSE vehicle,
                !.entry_date = IF entry_date = Absent THEN @ ELSE entry_date,
                !.odometer = IF odometer = Absent THEN @ ELSE odometer,
                !.liters = IF liters = Absent THEN @ ELSE liters,
                !.total_amount = IF total_amount = Absent THEN @ ELSE total_amount]
        saved == [entries EXCEPT ![id] = fuel_entry]
        m == calculate_metrics(saved, fuel_entry, 0)
        computed == [saved EXCEPT ![id] = SaveMetrics(fuel_entry, m)]
    IN  IF v.code # "ok"
        THEN Fail("update_entry", <<>>, 400, v.code, id, fuel_entry.vehicle, v.detail)
        ELSE /\ entries' = recalculate_metrics_after_entry(computed, computed[id])
             /\ stats_cache' = invalidate_statistics_cache(stats_cache, fuel_entry.user)
             /\ stats_version' = next_statistics_version(stats_version, fuel_entry.user)
             /\ response' = Response("update_entry", <<>>, 200, "ok", id, fuel_entry.vehicle, <<>>, m,
                                     entries' # entries \/ stats_cache' # stats_cache)
             /\ requests' = IF response'.effect THEN requests + 1 ELSE requests
             /\ UNCHANGED <<vehicles, next_id, now, in_flight>>

\* The PATCH bodies explored: any of vehicle, entry_date and odometer, each
\* carried or not, and one per field validator that carries a rejected value.
PatchWellFormed(sc) ==
    {<<vehicle, entry_date, odometer, Absent, Absent>> :
        vehicle \in sc.vehicles \cup {Absent},
        entry_date \in (1..MaxDate) \cup {Absent},
        odometer \in (1..sc.max_odometer) \cup {Absent}}
PatchMalformed ==
    {<<Absent, Today + 1, Absent, Absent, Absent>>,
     <<Absent, Absent, 0, Absent, Absent>>,
     <<Absent, Absent, Absent, 0, Absent>>,
     <<Absent, Absent, Absent, Absent, 0>>}

\* get_queryset hides the entries of other users: get_object answers 404.
update_entry(sc) ==
    /\ Serving(sc)
    /\ \E user \in sc.users, id \in DOMAIN entries :
            IF entries[id].user # user
            THEN Fail("update_entry", <<>>, 404, "not_found", id, 0, <<>>)
            ELSE \E f \in PatchWellFormed(sc) \cup PatchMalformed :
                    IF f[1] # Absent /\ f[1] \notin DOMAIN vehicles
                    THEN Fail("update_entry", <<>>, 400, "does_not_exist", id, f[1], <<>>)
                    ELSE perform_update(id, f[1], f[2], f[3], f[4], f[5])

\* DELETE /fuel-entries/<id>: FuelEntryViewSet.perform_destroy.
perform_destroy(id) ==
    LET vehicle_id == entries[id].vehicle
        user_id == entries[id].user
        deleted == [i \in DOMAIN entries \ {id} |-> entries[i]]
    IN  /\ entries' = recalculate_all_metrics_for_vehicle(deleted, vehicles, vehicle_id)
        /\ stats_cache' = invalidate_statistics_cache(stats_cache, user_id)
        /\ stats_version' = next_statistics_version(stats_version, user_id)
        /\ requests' = requests + 1
        /\ response' = Response("delete_entry", <<entries[id].entry_date, entries[id].created_at>>,
                                204, "ok", id, vehicle_id, <<>>, NoMetrics, TRUE)
        /\ UNCHANGED <<vehicles, next_id, now, in_flight>>

\* delete_entry with get_object over the entries of every user.
delete_entry_unscoped(sc) ==
    /\ Serving(sc)
    /\ \E user \in sc.users, id \in DOMAIN entries : perform_destroy(id)

delete_entry(sc) ==
    /\ Serving(sc)
    /\ \E user \in sc.users, id \in DOMAIN entries :
            IF entries[id].user # user
            THEN Fail("delete_entry", <<>>, 404, "not_found", id, 0, <<>>)
            ELSE perform_destroy(id)

\* ---------------------------------------------------------------- vehicles
\* vehicle_perform_update outside a transaction: what the serializer saved
\* before the recalculation raised stays.
vehicle_perform_update_unwrapped(vehicle, initial_odometer) ==
    LET v == IF initial_odometer = Absent THEN Ok
             ELSE validate_initial_odometer(entries, vehicle, initial_odometer)
        changed == initial_odometer # Absent
                   /\ initial_odometer # vehicles[vehicle].initial_odometer
    IN  IF v.code # "ok"
        THEN Fail("update_vehicle", <<initial_odometer>>, 400, v.code, 0, vehicle, <<>>)
        ELSE IF changed
        THEN /\ vehicles' = [vehicles EXCEPT ![vehicle].initial_odometer = initial_odometer]
             /\ requests' = requests + 1
             /\ response' = Response("update_vehicle", <<initial_odometer>>, 500, "TypeError", 0,
                                     vehicle, <<>>, NoMetrics, TRUE)
             /\ UNCHANGED <<entries, next_id, now, stats_cache, stats_version, in_flight>>
        ELSE /\ response' = Response("update_vehicle", <<initial_odometer>>, 200, "ok", 0, vehicle, <<>>,
                                     NoMetrics, FALSE)
             /\ UNCHANGED <<vehicles, entries, next_id, now, stats_cache, stats_version, in_flight, requests>>

\* PATCH /vehicles/<id> carrying initial_odometer (or not):
\* VehicleSerializer validation, VehicleViewSet.perform_update and, inside
\* serializer.save(), VehicleSerializer.update.
vehicle_perform_update(vehicle, initial_odometer) ==
    LET v == IF initial_odometer = Absent THEN Ok
             ELSE validate_initial_odometer(entries, vehicle, initial_odometer)
        changed == initial_odometer # Absent
                   /\ initial_odometer # vehicles[vehicle].initial_odometer
        updated == [vehicles EXCEPT ![vehicle].initial_odometer = initial_odometer]
    IN  IF v.code # "ok"
        THEN Fail("update_vehicle", <<initial_odometer>>, 400, v.code, 0, vehicle, <<>>)
        ELSE IF changed /\ SerializerRecalculateRaises
        THEN Fail("update_vehicle", <<initial_odometer>>, 500, "TypeError", 0, vehicle, <<>>)
        ELSE IF changed
        THEN /\ vehicles' = updated
             /\ entries' = recalculate_all_metrics_for_vehicle(entries, updated, vehicle)
             /\ stats_cache' = invalidate_statistics_cache(stats_cache, vehicles[vehicle].user)
             /\ stats_version' = next_statistics_version(stats_version, vehicles[vehicle].user)
             /\ requests' = requests + 1
             /\ response' = Response("update_vehicle", <<initial_odometer>>, 200, "ok", 0, vehicle, <<>>,
                                     NoMetrics, TRUE)
             /\ UNCHANGED <<next_id, now, in_flight>>
        ELSE /\ response' = Response("update_vehicle", <<initial_odometer>>, 200, "ok", 0, vehicle, <<>>,
                                     NoMetrics, FALSE)
             /\ UNCHANGED <<vehicles, entries, next_id, now, stats_cache, stats_version, in_flight, requests>>

update_vehicle(sc) ==
    /\ Serving(sc)
    /\ \E user \in sc.users, vehicle \in sc.vehicles :
            IF vehicle \notin DOMAIN vehicles \/ vehicles[vehicle].user # user
            THEN Fail("update_vehicle", <<>>, 404, "not_found", 0, vehicle, <<>>)
            ELSE \E initial_odometer \in (0..sc.max_odometer) \cup {Absent} :
                    vehicle_perform_update(vehicle, initial_odometer)

\* The deletion of a vehicle that leaves its entries in the table.
vehicle_perform_destroy_orphaning(vehicle) ==
    /\ vehicles' = [v \in DOMAIN vehicles \ {vehicle} |-> vehicles[v]]
    /\ requests' = requests + 1
    /\ response' = Response("delete_vehicle", <<>>, 204, "ok", 0, vehicle, <<>>, NoMetrics, TRUE)
    /\ UNCHANGED <<entries, next_id, now, stats_cache, stats_version, in_flight>>

\* DELETE /vehicles/<id>: the destroy of ModelViewSet, which VehicleViewSet
\* does not override.  on_delete=CASCADE of FuelEntry.vehicle deletes the
\* entries of the vehicle, whoever created them.
vehicle_perform_destroy(vehicle) ==
    /\ vehicles' = [v \in DOMAIN vehicles \ {vehicle} |-> vehicles[v]]
    /\ entries' = [i \in {j \in DOMAIN entries : entries[j].vehicle # vehicle} |-> entries[i]]
    /\ requests' = requests + 1
    /\ response' = Response("delete_vehicle", <<>>, 204, "ok", 0, vehicle, <<>>, NoMetrics, TRUE)
    /\ UNCHANGED <<next_id, now, stats_cache, stats_version, in_flight>>

delete_vehicle(sc) ==
    /\ Serving(sc)
    /\ \E user \in sc.users, vehicle \in sc.vehicles :
            IF vehicle \notin DOMAIN vehicles \/ vehicles[vehicle].user # user
            THEN Fail("delete_vehicle", <<>>, 404, "not_found", 0, vehicle, <<>>)
            ELSE vehicle_perform_destroy(vehicle)

\* ---------------------------------------------------------------- retrieval
\* GET /fuel-entries/<id> and GET /vehicles/<id>: get_object over get_queryset,
\* which holds the rows of the requesting user only.
retrieve_entry(sc) ==
    /\ Serving(sc)
    /\ \E user \in sc.users, id \in 1..sc.max_id :
            IF id \notin DOMAIN entries \/ entries[id].user # user
            THEN Fail("retrieve_entry", <<user>>, 404, "not_found", id, 0, <<>>)
            ELSE /\ response' = Response("retrieve_entry", <<user>>, 200, "ok", id,
                                         entries[id].vehicle, entries[id], NoMetrics, FALSE)
                 /\ UNCHANGED <<vehicles, entries, next_id, now, stats_cache, stats_version,
                                in_flight, requests>>

retrieve_vehicle(sc) ==
    /\ Serving(sc)
    /\ \E user \in sc.users, vehicle \in sc.vehicles :
            IF vehicle \notin DOMAIN vehicles \/ vehicles[vehicle].user # user
            THEN Fail("retrieve_vehicle", <<user>>, 404, "not_found", 0, vehicle, <<>>)
            ELSE /\ response' = Response("retrieve_vehicle", <<user>>, 200, "ok", 0, vehicle,
                                         vehicles[vehicle], NoMetrics, FALSE)
                 /\ UNCHANGED <<vehicles, entries, next_id, now, stats_cache, stats_version,
                                in_flight, requests>>

\* ---------------------------------------------------------------- statistics
\* Sum(...) of an aggregate: the sum of f over the rows S.
RECURSIVE SumOver(_, _)
SumOver(f, S) ==
    IF S = {} THEN 0
    ELSE LET x == CHOOSE x \in S : TRUE IN f[x] + SumOver(f, S \ {x})

\* Max(...) and Min(...) of an aggregate over the non-empty set of values S.
MaxOf(S) == CHOOSE x \in S : \A y \in S : y <= x
MinOf(S) == CHOOSE x \in S : \A y \in S : x <= y

\* round(float(n / d), places) of a non-negative quotient, as the number of
\* 10^-places units.  (A quotient halfway between two such units is rounded to
\* the even one; the binary float nearest to it may lie on either side.)
RoundFloat(n, d, places) == <<RoundHalfEven(n * Pow10(places), d)>>

\* The default query window of the dashboard, in days before today.
DefaultPeriodDays == 30

\* The longest custom window the view accepts: (date_before - date_after).days.
MaxCustomDays == 365

\* StatisticsService.get_period_dates for the period types '30d' and 'custom'.
get_period_dates(period_type, date_after, date_before) ==
    IF period_type = "30d"
    THEN [date_after |-> Today - DefaultPeriodDays, date_before |-> Today]
    ELSE [date_after |-> date_after, date_before |-> date_before]

\* The base queryset of calculate_dashboard_statistics without the user filter.
StatsQueryset_any_user(E, user_id, vehicle_id, period_dates) ==
    {i \in DOMAIN E :
        /\ E[i].entry_date >= period_dates.date_after
        /\ E[i].entry_date <= period_dates.date_before
        /\ (vehicle_id # 0 => E[i].vehicle = vehicle_id)}

\* The base queryset of calculate_dashboard_statistics without the lower bound
\* of the period.
StatsQueryset_unbounded(E, user_id, vehicle_id, period_dates) ==
    {i \in DOMAIN E :
        /\ E[i].user = user_id
        /\ E[i].entry_date <= period_dates.date_before
        /\ (vehicle_id # 0 => E[i].vehicle = vehicle_id)}

\* The base queryset of calculate_dashboard_statistics: the user's entries of
\* the period, of the vehicle if one is given (vehicle_id 0: none given).
StatsQueryset(E, user_id, vehicle_id, period_dates) ==
    {i \in DOMAIN E :
        /\ E[i].user = user_id
        /\ E[i].entry_date >= period_dates.date_after
        /\ E[i].entry_date <= period_dates.date_before
        /\ (vehicle_id # 0 => E[i].vehicle = vehicle_id)}

\* total_distance as the sum of the distance_since_last of the rows.
TotalDistance_deltas(E, V, queryset, vehicle_id) ==
    SumOver([i \in DOMAIN E |-> IF E[i].distance_since_last = None THEN 0
                                ELSE E[i].distance_since_last[1]], queryset)

\* total_distance of calculate_dashboard_statistics: per vehicle, the highest
\* odometer of the rows minus the vehicle's initial_odometer.
TotalDistance(E, V, queryset, vehicle_id) ==
    IF vehicle_id # 0
    THEN IF queryset # {} /\ vehicle_id \in DOMAIN V
         THEN MaxOf({E[i].odometer : i \in queryset}) - V[vehicle_id].initial_odometer
         ELSE 0
    ELSE LET vehicle_ids == {E[i].vehicle : i \in queryset} \cap DOMAIN V
             distance == [v \in vehicle_ids |->
                            MaxOf({E[i].odometer : i \in {j \in queryset : E[j].vehicle = v}})
                                - V[v].initial_odometer]
         IN  SumOver(distance, vehicle_ids)

\* period_days as the length of the requested period whatever the entries.
PeriodDays_requested(E, queryset, period_dates) ==
    period_dates.date_before - period_dates.date_after + 1

\* period_days of calculate_dashboard_statistics: the smaller of the requested
\* period and the span from the first to the last entry_date of the rows.
PeriodDays(E, queryset, period_dates) ==
    LET requested_period_days == period_dates.date_before - period_dates.date_after + 1
        dates == {E[i].entry_date : i \in queryset}
    IN  IF queryset # {}
        THEN LET actual_period_days == MaxOf(dates) - MinOf(dates) + 1
             IN  IF requested_period_days < actual_period_days
                 THEN requested_period_days ELSE actual_period_days
        ELSE requested_period_days

\* StatisticsService.calculate_dashboard_statistics: the 'aggregates' of the
\* result.  Sums are in units of 0.01, rounded averages in units of 10^-places.
calculate_dashboard_statistics(E, V, user_id, vehicle_id, period_type, date_after, date_before) ==
    LET period_dates == get_period_dates(period_type, date_after, date_before)
        queryset == StatsQueryset(E, user_id, vehicle_id, period_dates)
        entries_with_metrics ==
            {i \in queryset : E[i].distance_since_last # None /\ E[i].consumption_l_100km # None}
        total_fuel_for_consumption == SumOver([i \in DOMAIN E |-> E[i].liters], entries_with_metrics)
        consumptions == {E[i].consumption_l_100km[1] : i \in entries_with_metrics}
        total_fuel == SumOver([i \in DOMAIN E |-> E[i].liters], queryset)
        total_cost == SumOver([i \in DOMAIN E |-> E[i].total_amount], queryset)
        entry_count == Cardinality(queryset)
        total_distance == TotalDistance(E, V, queryset, vehicle_id)
        period_days == PeriodDays(E, queryset, period_dates)
    IN  [average_consumption |->
            IF total_distance > 0 /\ total_fuel_for_consumption # 0
            THEN RoundFloat(total_fuel_for_consumption * 100, total_distance, 1) ELSE None,
         average_unit_price |->
            IF total_fuel > 0 /\ total_cost # 0
            THEN RoundFloat(total_cost, total_fuel, 2) ELSE None,
         average_cost_per_km |->
            IF total_distance > 0 /\ total_cost # 0
            THEN RoundFloat(total_cost, total_distance, 4) ELSE None,
         total_distance |-> total_distance,
         total_liters |-> total_fuel * 100,
         total_spent |-> total_cost * 100,
         fill_up_count |-> entry_count,
         entry_count |-> entry_count,
         total_fuel |-> total_fuel * 100,
         total_cost |-> total_cost * 100,
         average_distance_per_day |->
            IF period_days > 0 /\ total_distance > 0
            THEN RoundFloat(total_distance, period_days, 1) ELSE None,
         min_consumption |->
            IF consumptions # {} /\ MinOf(consumptions) # 0
            THEN <<MinOf(consumptions)>> ELSE None,
         max_consumption |->
            IF consumptions # {} /\ MaxOf(consumptions) # 0
            THEN <<MaxOf(consumptions)>> ELSE None]

\* generate_safe_cache_key: the prefix and the parameters that are hashed, the
\* version the user's statistics had when the key was formed among them; the
\* user id is in the clear (stats_cache is kept per user).
generate_safe_cache_key(prefix, version, vehicle, period, after, before) ==
    <<prefix, version, vehicle, period, after, before>>

\* The validation of period_type accepting whatever is sent.
validate_period_any_type(period_type, date_after, date_before) ==
    IF period_type = "custom" /\ (date_after = Absent \/ date_before = Absent)
    THEN "missing_dates"
    ELSE IF period_type = "custom" /\ (date_after = 0 \/ date_before = 0)
    THEN "invalid_date_format"
    ELSE IF period_type = "custom" /\ date_before - date_after > MaxCustomDays
    THEN "period_too_long"
    ELSE "ok"

\* The validation of the custom range with the comparison off by one.
validate_period_inclusive(period_type, date_after, date_before) ==
    IF period_type \notin {"30d", "90d", "ytd", "custom"} THEN "invalid_period"
    ELSE IF period_type = "custom" /\ (date_after = Absent \/ date_before = Absent)
    THEN "missing_dates"
    ELSE IF period_type = "custom" /\ (date_after = 0 \/ date_before = 0)
    THEN "invalid_date_format"
    ELSE IF period_type = "custom" /\ date_before - date_after >= MaxCustomDays
    THEN "period_too_long"
    ELSE "ok"

\* The validation of the period parameters in dashboard_statistics: the code
\* of the first error answered, or "ok".
validate_period(period_type, date_after, date_before) ==
    IF period_type \notin {"30d", "90d", "ytd", "custom"} THEN "invalid_period"
    ELSE IF period_type = "custom" /\ (date_after = Absent \/ date_before = Absent)
    THEN "missing_dates"
    ELSE IF period_type = "custom" /\ (date_after = 0 \/ date_before = 0)
    THEN "invalid_date_format"
    ELSE IF period_type = "custom" /\ date_before - date_after > MaxCustomDays
    THEN "period_too_long"
    ELSE "ok"

\* GET /statistics/dashboard (vehicle 0: no vehicle parameter; a date Absent: no
\* such parameter; a date 0: a string that is no date).
dashboard_statistics(user_id, vehicle_id, period_type, date_after, date_before) ==
    LET query == <<user_id, vehicle_id, period_type, date_after, date_before>>
        cache_key == generate_safe_cache_key("dashboard_stats", stats_version[user_id], vehicle_id,
                                             period_type, date_after, date_before)
        cached == {c \in stats_cache[user_id] : c.key = cache_key}
        result == calculate_dashboard_statistics(entries, vehicles, user_id, vehicle_id,
                                                 period_type, date_after, date_before)
        error == validate_period(period_type, date_after, date_before)
    IN  IF error # "ok"
        THEN Fail("dashboard_statistics", query, 400, error, 0, vehicle_id, <<>>)
        ELSE IF cached # {}
        THEN /\ response' = Response("dashboard_statistics", query, 200, "ok", 0, vehicle_id,
                                     (CHOOSE c \in cached : TRUE).result, NoMetrics, FALSE)
             /\ UNCHANGED <<vehicles, entries, next_id, now, stats_cache, stats_version, in_flight, requests>>
        ELSE /\ stats_cache' = [stats_cache EXCEPT
                                    ![user_id] = @ \cup {[key |-> cache_key, result |-> result]}]
             /\ requests' = requests + 1
             /\ response' = Response("dashboard_statistics", query, 200, "ok", 0, vehicle_id,
                                     result, NoMetrics, TRUE)
             /\ UNCHANGED <<vehicles, entries, next_id, now, stats_version, in_flight>>

\* The queries explored: the default period, every custom window over the
\* dates (an empty one, date_after > date_before, included), the longest custom
\* window the view accepts, and one query per way the view rejects the period.
Rejected ==
    {<<"week", Absent, Absent>>, <<"custom", Absent, Today>>, <<"custom", Today, Absent>>,
     <<"custom", 0, Today>>, <<"custom", Today - MaxCustomDays - 1, Today>>}

Queries ==
    {<<"30d", Absent, Absent>>, <<"custom", Today - MaxCustomDays, Today>>}
        \cup {<<"custom", a, b>> : a \in 1..MaxDate, b \in 1..MaxDate}
        \cup Rejected

read_dashboard(sc) ==
    /\ Serving(sc)
    /\ \E user \in sc.users, vehicle \in sc.vehicles \cup {0}, q \in sc.queries :
            dashboard_statistics(user, vehicle, q[1], q[2], q[3])

\* ---------------------------------------------------------------- brands, grades
\* The annotate(...) of calculate_brand_statistics / calculate_grade_statistics
\* over the rows of one group and the averages formed from it.  Sum skips the
\* rows whose distance_since_last is null.
GroupAggregates(E, rows) ==
    LET total_liters == SumOver([i \in DOMAIN E |-> E[i].liters], rows)
        total_cost == SumOver([i \in DOMAIN E |-> E[i].total_amount], rows)
        total_distance ==
            SumOver([i \in DOMAIN E |-> IF E[i].distance_since_last = None THEN 0
                                        ELSE E[i].distance_since_last[1]], rows)
    IN  [average_consumption |->
            IF total_distance > 0 /\ total_liters # 0
            THEN RoundFloat(total_liters * 100, total_distance, 1) ELSE None,
         average_unit_price |->
            IF total_liters > 0 /\ total_cost # 0
            THEN RoundFloat(total_cost, total_liters, 2) ELSE None,
         average_cost_per_km |->
            IF total_distance > 0 /\ total_cost # 0
            THEN RoundFloat(total_cost, total_distance, 4) ELSE None,
         fill_count |-> Cardinality(rows)]

\* order_by('-fill_count'): the orders the database may return the groups in;
\* groups of equal fill_count come in any order.
OrderByFillCount(groups) ==
    {seq \in [1..Cardinality(groups) -> groups] :
        /\ \A a, b \in DOMAIN seq : a # b => seq[a] # seq[b]
        /\ \A a, b \in DOMAIN seq : a < b => seq[a].fill_count >= seq[b].fill_count}

\* StatisticsService.calculate_brand_statistics: the groups of the result.
calculate_brand_statistics(E, user_id, vehicle_id) ==
    LET queryset == {i \in DOMAIN E :
                        /\ E[i].user = user_id
                        /\ (vehicle_id # 0 => E[i].vehicle = vehicle_id)}
        branded == {i \in queryset : E[i].fuel_brand # ""}
    IN  {[brand |-> b] @@ GroupAggregates(E, {i \in branded : E[i].fuel_brand = b}) :
            b \in {E[i].fuel_brand : i \in branded}}

\* StatisticsService.calculate_grade_statistics: the groups of the result.
calculate_grade_statistics(E, user_id, vehicle_id) ==
    LET queryset == {i \in DOMAIN E :
                        /\ E[i].user = user_id
                        /\ (vehicle_id # 0 => E[i].vehicle = vehicle_id)}
        graded == {i \in queryset : E[i].fuel_grade # ""}
    IN  {[grade |-> g] @@ GroupAggregates(E, {i \in graded : E[i].fuel_grade = g}) :
            g \in {E[i].fuel_grade : i \in graded}}

\* ServeStatistics setting a new version each time it computes.
ServeStatistics_bumping(op, prefix, user_id, vehicle_id, groups) ==
    LET cache_key == generate_safe_cache_key(prefix, stats_version[user_id], vehicle_id,
                                             None, None, None)
        cached == {c \in stats_cache[user_id] : c.key = cache_key}
    IN  IF cached # {}
        THEN /\ response' = Response(op, <<user_id, vehicle_id>>, 200, "ok", 0, vehicle_id,
                                     (CHOOSE c \in cached : TRUE).result, NoMetrics, FALSE)
             /\ UNCHANGED <<vehicles, entries, next_id, now, stats_cache, stats_version,
                            in_flight, requests>>
        ELSE \E result \in OrderByFillCount(groups) :
                /\ stats_cache' = [stats_cache EXCEPT
                                       ![user_id] = @ \cup {[key |-> cache_key, result |-> result]}]
                /\ stats_version' = next_statistics_version(stats_version, user_id)
                /\ requests' = requests + 1
                /\ response' = Response(op, <<user_id, vehicle_id>>, 200, "ok", 0, vehicle_id,
                                        result, NoMetrics, TRUE)
                /\ UNCHANGED <<vehicles, entries, next_id, now, in_flight>>

\* The body shared by brand_statistics and grade_statistics: serve what is
\* cached under the key, else compute, cache and serve.
ServeStatistics(op, prefix, user_id, vehicle_id, groups) ==
    LET cache_key == generate_safe_cache_key(prefix, stats_version[user_id], vehicle_id,
                                             None, None, None)
        cached == {c \in stats_cache[user_id] : c.key = cache_key}
    IN  IF cached # {}
        THEN /\ response' = Response(op, <<user_id, vehicle_id>>, 200, "ok", 0, vehicle_id,
                                     (CHOOSE c \in cached : TRUE).result, NoMetrics, FALSE)
             /\ UNCHANGED <<vehicles, entries, next_id, now, stats_cache, stats_version,
                            in_flight, requests>>
        ELSE \E result \in OrderByFillCount(groups) :
                /\ stats_cache' = [stats_cache EXCEPT
                                       ![user_id] = @ \cup {[key |-> cache_key, result |-> result]}]
                /\ requests' = requests + 1
                /\ response' = Response(op, <<user_id, vehicle_id>>, 200, "ok", 0, vehicle_id,
                                        result, NoMetrics, TRUE)
                /\ UNCHANGED <<vehicles, entries, next_id, now, stats_version, in_flight>>

\* GET /statistics/by-brand (vehicle 0: no vehicle parameter).
brand_statistics(user_id, vehicle_id) ==
    ServeStatistics("brand_statistics", "brand_stats", user_id, vehicle_id,
                    calculate_brand_statistics(entries, user_id, vehicle_id))

\* GET /statistics/by-grade (vehicle 0: no vehicle parameter).
grade_statistics(user_id, vehicle_id) ==
    ServeStatistics("grade_statistics", "grade_stats", user_id, vehicle_id,
                    calculate_grade_statistics(entries, user_id, vehicle_id))

read_brands(sc) ==
    /\ Serving(sc)
    /\ \E user \in sc.users, vehicle \in sc.vehicles \cup {0} : brand_statistics(user, vehicle)

read_grades(sc) ==
    /\ Serving(sc)
    /\ \E user \in sc.users, vehicle \in sc.vehicles \cup {0} : grade_statistics(user, vehicle)

\* ---------------------------------------------------------------- system
\* The fuel_brand and fuel_grade every fill carries where the labels do not
\* matter.
OneLabel == {<<"Shell", "95">>}

\* The write API on both vehicles: user 1 creates the entries, either user
\* addresses them.
Core == [users |-> Users, creators |-> {1}, vehicles |-> Vehicles, labels |-> OneLabel,
         max_id |-> MaxId, max_odometer |-> MaxOdometer, max_requests |-> MaxRequests]

Next ==
    \/ create_entry(Core)
    \/ update_entry(Core)
    \/ delete_entry(Core)
    \/ update_vehicle(Core)

Spec == Init /\ [][Next]_vars

\* The write API on one vehicle with a longer history: one more entry and one
\* more odometer reading than above.
History == [users |-> {1}, creators |-> {1}, vehicles |-> {1}, labels |-> OneLabel,
            max_id |-> MaxId + 1, max_odometer |-> MaxOdometer + 1,
            max_requests |-> MaxRequests]

NextHistory ==
    \/ create_entry(History)
    \/ update_entry(History)
    \/ delete_entry(History)
    \/ update_vehicle(History)

SpecHistory == Init /\ [][NextHistory]_vars

\* The write API on one vehicle over a longer sequence of requests.
Edits == [users |-> {1}, creators |-> {1}, vehicles |-> {1}, labels |-> OneLabel,
          max_id |-> MaxId, max_odometer |-> MaxOdometer,
          max_requests |-> MaxRequests + 1]

NextEdits ==
    \/ create_entry(Edits)
    \/ update_entry(Edits)
    \/ delete_entry(Edits)
    \/ update_vehicle(Edits)

SpecEdits == Init /\ [][NextEdits]_vars

\* Entries of both users on both vehicles, and the dashboard read by either.
StatsRequests == 3
StatsEntries == 2

Dashboard == [users |-> Users, creators |-> Users, vehicles |-> Vehicles, labels |-> OneLabel,
              queries |-> Queries,
              max_id |-> StatsEntries, max_odometer |-> MaxOdometer,
              max_requests |-> StatsRequests]

NextDashboard ==
    \/ create_entry(Dashboard)
    \/ update_entry(Dashboard)
    \/ delete_entry(Dashboard)
    \/ update_vehicle(Dashboard)
    \/ read_dashboard(Dashboard)

SpecDashboard == Init /\ [][NextDashboard]_vars

\* Fills of several brands and grades by both users on both vehicles, and the
\* statistics by brand and by grade read by either.  A brand or a grade that
\* is markup only is stored blank; one body carries a blank brand.
GroupEntries == 2
GroupRequests == 4
GroupOdometer == 2

Labels == {<<"Shell", "95">>, <<"BP", MarkupOnly>>, <<MarkupOnly, "98">>, <<"", "95">>}

Groups == [users |-> Users, creators |-> Users, vehicles |-> {1}, labels |-> Labels,
           max_id |-> GroupEntries, max_odometer |-> GroupOdometer,
           max_requests |-> GroupRequests]

NextGroups ==
    \/ create_entry(Groups)
    \/ update_entry(Groups)
    \/ delete_entry(Groups)
    \/ read_brands(Groups)
    \/ read_grades(Groups)

SpecGroups == Init /\ [][NextGroups]_vars

\* The whole API on the vehicles and entries of user 1, addressed by either
\* user: the writes, the deletion of a vehicle, the retrievals and the three
\* statistics, the dashboard over the default period.
ServiceEntries == 2
ServiceRequests == 4
ServiceOdometer == 2

Service == [users |-> Users, creators |-> {1}, vehicles |-> Vehicles, labels |-> OneLabel,
            queries |-> {<<"30d", Absent, Absent>>, <<"week", Absent, Absent>>},
            max_id |-> ServiceEntries, max_odometer |-> ServiceOdometer,
            max_requests |-> ServiceRequests]

NextService ==
    \/ create_entry(Service)
    \/ update_entry(Service)
    \/ delete_entry(Service)
    \/ update_vehicle(Service)
    \/ delete_vehicle(Service)
    \/ retrieve_entry(Service)
    \/ retrieve_vehicle(Service)
    \/ read_dashboard(Service)
    \/ read_brands(Service)
    \/ read_grades(Service)

SpecService == Init /\ [][NextService]_vars

\* User 2 addressing the vehicles and the entries of user 1, who creates them.
Strangers == [users |-> {2}, creators |-> {1}, vehicles |-> Vehicles, labels |-> OneLabel,
              max_id |-> MaxId, max_odometer |-> MaxOdometer, max_requests |-> MaxRequests]

NextStrangers ==
    \/ create_entry(Strangers)
    \/ update_entry(Strangers)
    \/ delete_entry(Strangers)
    \/ update_vehicle(Strangers)
    \/ delete_vehicle(Strangers)
    \/ retrieve_entry(Strangers)
    \/ retrieve_vehicle(Strangers)

SpecStrangers == Init /\ [][NextStrangers]_vars

\* ---------------------------------------------------------------- concurrency
\* Two server processes serving requests on one vehicle at the same time.  A
\* request is served in two steps: CreateModelMixin.create / UpdateModelMixin.
\* update call serializer.is_valid, which reads the tables as they are then,
\* and afterwards perform_create / perform_update, which run in a transaction
\* of their own.  Nothing is locked between the two (no select_for_update, no
\* lock on the vehicle), so the other process may commit in between.
RaceEntries == 2
RaceRequests == 3
RaceOdometer == 3

Race == [users |-> {1}, creators |-> {1}, vehicles |-> {1}, labels |-> OneLabel,
         max_id |-> RaceEntries, max_odometer |-> RaceOdometer,
         max_requests |-> RaceRequests]

\* POST /fuel-entries up to the end of serializer.is_valid: the request that
\* passed is held by the process that serves it.
begin_create(sc, w) ==
    /\ Serving(sc)
    /\ in_flight[w] = None
    /\ \E user \in sc.creators, vehicle \in sc.vehicles \cap DOMAIN vehicles,
          f \in WellFormed(sc.max_odometer), l \in sc.labels :
            LET v == ValidateCreate(entries, vehicles, now, vehicle, f[1], f[2], f[3], f[4])
            IN  IF v.code # "ok"
                THEN Fail("create_entry", f, 400, v.code, 0, vehicle, v.detail)
                ELSE /\ in_flight' = [in_flight EXCEPT ![w] =
                            [op |-> "create_entry", id |-> 0, user |-> user,
                             vehicle |-> vehicle, entry_date |-> f[1], odometer |-> f[2],
                             liters |-> f[3], total_amount |-> f[4],
                             fuel_brand |-> sanitize_text_input(l[1]),
                             fuel_grade |-> sanitize_text_input(l[2])]]
                     /\ UNCHANGED <<vehicles, entries, next_id, now, stats_cache,
                                    stats_version, requests, response>>

\* The row a process in flight is about to write.
RowInFlight(r) ==
    [vehicle |-> r.vehicle, user |-> r.user, entry_date |-> r.entry_date,
     created_at |-> IF r.op = "create_entry" THEN now ELSE r.created_at,
     odometer |-> r.odometer, liters |-> r.liters, total_amount |-> r.total_amount,
     fuel_brand |-> r.fuel_brand, fuel_grade |-> r.fuel_grade, unit_price |-> None,
     distance_since_last |-> None, consumption_l_100km |-> None, cost_per_km |-> None]

\* The commit that validates the request once more against the tables as they
\* are when it writes.
CommitRefused_revalidating(E, r) ==
    \/ UniqueConflict(E, r.vehicle, r.entry_date, r.odometer, r.id)
    \/ validate_odometer_monotonicity(E, vehicles, now, r.vehicle, r.odometer,
                                      r.entry_date, r.id).code # "ok"

\* What the tables hold when the process commits decides nothing but the
\* unique_together constraint, which the database enforces.
CommitRefused(E, r) == UniqueConflict(E, r.vehicle, r.entry_date, r.odometer, r.id)

\* The rest of the request: perform_create or perform_update, in its
\* transaction.  An IntegrityError rolls it back and is answered 500.
commit(sc, w) ==
    /\ in_flight[w] # None
    /\ in_flight' = [in_flight EXCEPT ![w] = None]
    /\ LET r == in_flight[w]
           id == IF r.op = "create_entry" THEN next_id ELSE r.id
           fuel_entry == RowInFlight(r)
           saved == (id :> fuel_entry) @@ entries
           m == calculate_metrics(saved, fuel_entry, 0)
           computed == [saved EXCEPT ![id] = SaveMetrics(fuel_entry, m)]
           body == <<r.entry_date, r.odometer, r.liters, r.total_amount>>
       IN  IF CommitRefused(entries, r)
           THEN /\ response' = Response(r.op, body, 500, "integrity_error", r.id, r.vehicle,
                                        <<>>, NoMetrics, FALSE)
                /\ UNCHANGED <<vehicles, entries, next_id, now, stats_cache, stats_version,
                               requests>>
           ELSE /\ r.op = "create_entry" => next_id <= sc.max_id
                /\ entries' = recalculate_metrics_after_entry(computed, computed[id])
                /\ next_id' = IF r.op = "create_entry" THEN next_id + 1 ELSE next_id
                /\ now' = IF r.op = "create_entry" THEN now + 1 ELSE now
                /\ stats_cache' = invalidate_statistics_cache(stats_cache, r.user)
                /\ stats_version' = next_statistics_version(stats_version, r.user)
                /\ requests' = requests + 1
                /\ response' = Response(r.op, body, IF r.op = "create_entry" THEN 201 ELSE 200,
                                        "ok", id, r.vehicle, <<>>, m, TRUE)
                /\ UNCHANGED vehicles

\* PATCH /fuel-entries/<id> up to the end of serializer.is_valid: get_object
\* read the row, and the request that passed is held with the row as read.
begin_update(sc, w) ==
    /\ Serving(sc)
    /\ in_flight[w] = None
    /\ \E user \in sc.users, id \in DOMAIN entries, f \in PatchWellFormed(sc) :
        /\ entries[id].user = user
        /\ f[1] # Absent => f[1] \in DOMAIN vehicles
        /\ LET v == ValidateUpdate(entries, vehicles, now, id, f[1], f[2], f[3], f[4], f[5])
               instance == entries[id]
           IN  IF v.code # "ok"
               THEN Fail("update_entry", <<>>, 400, v.code, id, instance.vehicle, v.detail)
               ELSE /\ in_flight' = [in_flight EXCEPT ![w] =
                           [op |-> "update_entry", id |-> id, user |-> instance.user,
                            created_at |-> instance.created_at,
                            vehicle |-> IF f[1] = Absent THEN instance.vehicle ELSE f[1],
                            entry_date |-> IF f[2] = Absent THEN instance.entry_date ELSE f[2],
                            odometer |-> IF f[3] = Absent THEN instance.odometer ELSE f[3],
                            liters |-> instance.liters,
                            total_amount |-> instance.total_amount,
                            fuel_brand |-> instance.fuel_brand,
                            fuel_grade |-> instance.fuel_grade]]
                    /\ UNCHANGED <<vehicles, entries, next_id, now, stats_cache,
                                   stats_version, requests, response>>

NextRace ==
    \/ \E w \in Workers : begin_create(Race, w)
    \/ \E w \in Workers : begin_update(Race, w)
    \/ \E w \in Workers : commit(Race, w)

SpecRace == Init /\ [][NextRace]_vars

\* ---------------------------------------------------------------- cache and transaction
\* A write whose transaction is open while the statistics are read.  Inside
\* perform_create the rows are written and _invalidate_statistics_cache sets
\* the version key; the rows become visible to other requests when the
\* transaction commits, the version key when cache.set returns.
StaleEntries == 2
StaleRequests == 4
StaleOdometer == 2

\* Whether the cache is written through the connection of the open
\* transaction, so that the version key becomes visible with the rows.  The
\* statistics cache is a process-wide cache beside the database.
CacheSharesTransaction == FALSE

Stale == [users |-> {1}, creators |-> {1}, vehicles |-> {1}, labels |-> OneLabel,
          queries |-> {<<"30d", Absent, Absent>>},
          max_id |-> StaleEntries, max_odometer |-> StaleOdometer,
          max_requests |-> StaleRequests]

\* POST /fuel-entries up to the end of the body of perform_create, before its
\* transaction commits: the request was validated, the rows are written but
\* not yet visible, the version key is set.
write_in_transaction(sc, w) ==
    /\ Serving(sc)
    /\ \A x \in Workers : in_flight[x] = None
    /\ next_id <= sc.max_id
    /\ \E user \in sc.creators, vehicle \in sc.vehicles \cap DOMAIN vehicles,
          f \in WellFormed(sc.max_odometer), l \in sc.labels :
            LET v == ValidateCreate(entries, vehicles, now, vehicle, f[1], f[2], f[3], f[4])
            IN  IF v.code # "ok"
                THEN Fail("create_entry", f, 400, v.code, 0, vehicle, v.detail)
                ELSE /\ in_flight' = [in_flight EXCEPT ![w] =
                            [op |-> "create_entry", id |-> 0, user |-> user,
                             vehicle |-> vehicle, entry_date |-> f[1], odometer |-> f[2],
                             liters |-> f[3], total_amount |-> f[4],
                             fuel_brand |-> sanitize_text_input(l[1]),
                             fuel_grade |-> sanitize_text_input(l[2])]]
                     /\ stats_cache' = IF CacheSharesTransaction THEN stats_cache
                                       ELSE invalidate_statistics_cache(stats_cache, user)
                     /\ stats_version' = IF CacheSharesTransaction THEN stats_version
                                         ELSE next_statistics_version(stats_version, user)
                     /\ UNCHANGED <<vehicles, entries, next_id, now, requests, response>>

\* The commit of the transaction of perform_create: the rows written become
\* visible.
commit_transaction(sc, w) ==
    /\ in_flight[w] # None
    /\ in_flight' = [in_flight EXCEPT ![w] = None]
    /\ LET r == in_flight[w]
           id == next_id
           fuel_entry == RowInFlight(r)
           saved == (id :> fuel_entry) @@ entries
           m == calculate_metrics(saved, fuel_entry, 0)
           computed == [saved EXCEPT ![id] = SaveMetrics(fuel_entry, m)]
           body == <<r.entry_date, r.odometer, r.liters, r.total_amount>>
       IN  /\ entries' = recalculate_metrics_after_entry(computed, computed[id])
           /\ next_id' = next_id + 1
           /\ now' = now + 1
           /\ stats_cache' = IF CacheSharesTransaction
                             THEN invalidate_statistics_cache(stats_cache, r.user)
                             ELSE stats_cache
           /\ stats_version' = IF CacheSharesTransaction
                               THEN next_statistics_version(stats_version, r.user)
                               ELSE stats_version
           /\ requests' = requests + 1
           /\ response' = Response(r.op, body, 201, "ok", id, r.vehicle, <<>>, m, TRUE)
           /\ UNCHANGED vehicles

NextStale ==
    \/ \E w \in Workers : write_in_transaction(Stale, w)
    \/ \E w \in Workers : commit_transaction(Stale, w)
    \/ read_dashboard(Stale)

SpecStale == Init /\ [][NextStale]_vars

\* ---------------------------------------------------------------- overlapping transactions
\* Two creations on one vehicle whose transactions overlap.  The body of
\* perform_create reads the rows committed so far (read committed), computes
\* the attributes of its row and of the rows dated after it in Python and
\* saves them; what it wrote becomes visible when its transaction commits.
OverlapEntries == 3
OverlapRequests == 3
OverlapOdometer == 3

Overlap == [users |-> {1}, creators |-> {1}, vehicles |-> {1}, labels |-> OneLabel,
            max_id |-> OverlapEntries, max_odometer |-> OverlapOdometer,
            max_requests |-> OverlapRequests]

\* The computed attributes of row, as save(update_fields=[...]) writes them.
ComputedFields(row) ==
    [unit_price |-> row.unit_price, distance_since_last |-> row.distance_since_last,
     consumption_l_100km |-> row.consumption_l_100km, cost_per_km |-> row.cost_per_km]

\* POST /fuel-entries up to the end of the body of perform_create: validation,
\* the insert (the id comes from the sequence, created_at from the clock),
\* calculate_metrics and recalculate_metrics_after_entry, all on the rows
\* committed so far.  The process holds what it wrote.
execute_create(sc, w) ==
    /\ Serving(sc)
    /\ in_flight[w] = None
    /\ next_id <= sc.max_id
    /\ \E user \in sc.creators, vehicle \in sc.vehicles \cap DOMAIN vehicles,
          f \in WellFormed(sc.max_odometer), l \in sc.labels :
            LET v == ValidateCreate(entries, vehicles, now, vehicle, f[1], f[2], f[3], f[4])
                id == next_id
                fuel_entry ==
                    [vehicle |-> vehicle, user |-> user, entry_date |-> f[1],
                     created_at |-> now, odometer |-> f[2], liters |-> f[3],
                     total_amount |-> f[4], fuel_brand |-> sanitize_text_input(l[1]),
                     fuel_grade |-> sanitize_text_input(l[2]), unit_price |-> None,
                     distance_since_last |-> None, consumption_l_100km |-> None,
                     cost_per_km |-> None]
                saved == (id :> fuel_entry) @@ entries
                m == calculate_metrics(saved, fuel_entry, 0)
                computed == [saved EXCEPT ![id] = SaveMetrics(fuel_entry, m)]
                written == recalculate_metrics_after_entry(computed, computed[id])
                followers == {i \in DOMAIN entries :
                                /\ entries[i].vehicle = vehicle
                                /\ entries[i].entry_date > f[1]}
            IN  IF v.code # "ok"
                THEN Fail("create_entry", f, 400, v.code, 0, vehicle, v.detail)
                ELSE /\ in_flight' = [in_flight EXCEPT ![w] =
                            [op |-> "create_entry", id |-> id, user |-> user,
                             row |-> written[id],
                             followers |-> [i \in followers |-> ComputedFields(written[i])]]]
                     /\ next_id' = next_id + 1
                     /\ now' = now + 1
                     /\ stats_cache' = IF CacheSharesTransaction THEN stats_cache
                                       ELSE invalidate_statistics_cache(stats_cache, user)
                     /\ stats_version' = IF CacheSharesTransaction THEN stats_version
                                         ELSE next_statistics_version(stats_version, user)
                     /\ UNCHANGED <<vehicles, entries, requests, response>>

\* The commit of the transaction: the row inserted and the attributes saved
\* for the rows after it become visible.  unique_together refuses a duplicate
\* of (vehicle, entry_date, odometer) committed in between.
commit_create(sc, w) ==
    /\ in_flight[w] # None
    /\ in_flight' = [in_flight EXCEPT ![w] = None]
    /\ LET r == in_flight[w]
           body == <<r.row.entry_date, r.row.odometer, r.row.liters, r.row.total_amount>>
       IN  IF UniqueConflict(entries, r.row.vehicle, r.row.entry_date, r.row.odometer, r.id)
           THEN /\ response' = Response(r.op, body, 500, "integrity_error", r.id, r.row.vehicle,
                                        <<>>, NoMetrics, FALSE)
                /\ UNCHANGED <<vehicles, entries, next_id, now, stats_cache, stats_version,
                               requests>>
           ELSE /\ entries' =
                    [i \in DOMAIN entries \cup {r.id} |->
                        IF i = r.id THEN r.row
                        ELSE IF i \in DOMAIN r.followers
                        THEN [entries[i] EXCEPT
                                !.unit_price = r.followers[i].unit_price,
                                !.distance_since_last = r.followers[i].distance_since_last,
                                !.consumption_l_100km = r.followers[i].consumption_l_100km,
                                !.cost_per_km = r.followers[i].cost_per_km]
                        ELSE entries[i]]
                /\ stats_cache' = IF CacheSharesTransaction
                                  THEN invalidate_statistics_cache(stats_cache, r.user)
                                  ELSE stats_cache
                /\ stats_version' = IF CacheSharesTransaction
                                    THEN next_statistics_version(stats_version, r.user)
                                    ELSE stats_version
                /\ requests' = requests + 1
                /\ response' = Response(r.op, body, 201, "ok", r.id, r.row.vehicle, <<>>,
                                        NoMetrics, TRUE)
                /\ UNCHANGED <<vehicles, next_id, now>>

NextOverlap ==
    \/ \E w \in Workers : execute_create(Overlap, w)
    \/ \E w \in Workers : commit_create(Overlap, w)

SpecOverlap == Init /\ [][NextOverlap]_vars

\* ---------------------------------------------------------------- properties
\* The order the specification gives the entries of a vehicle: by entry_date,
\* then by creation.
KeyBefore(d1, c1, d2, c2) == d1 < d2 \/ (d1 = d2 /\ c1 < c2)

Latest(E, S) ==
    CHOOSE p \in S : \A q \in S \ {p} :
        KeyBefore(E[q].entry_date, E[q].created_at, E[p].entry_date, E[p].created_at)

Earliest(E, S) ==
    CHOOSE p \in S : \A q \in S \ {p} :
        KeyBefore(E[p].entry_date, E[p].created_at, E[q].entry_date, E[q].created_at)

\* The immediate predecessor of stored entry i in that order; 0 when i is first.
Predecessor(i) ==
    LET S == {j \in DOMAIN entries :
                /\ entries[j].vehicle = entries[i].vehicle
                /\ KeyBefore(entries[j].entry_date, entries[j].created_at,
                             entries[i].entry_date, entries[i].created_at)}
    IN  IF S = {} THEN 0 ELSE Latest(entries, S)

\* The stored value v (in units of 10^-places) is the quotient n / d rounded
\* to `places` decimal places.
RoundedTo(v, n, d, places) ==
    LET diff == v * d - n * Pow10(places)
    IN  2 * (IF diff < 0 THEN -diff ELSE diff) <= d

\* The last response is that of a write on an entry that was committed.
EntryWritten ==
    /\ response.op \in {"create_entry", "update_entry"}
    /\ response.status \in {200, 201}

\* C1: after every committed write, every entry that has a predecessor in
\* (entry_date, creation order) within its vehicle, same-day predecessors
\* included, stores distance_since_last = its odometer minus the predecessor's.
C1_DistanceFromPredecessor ==
    \A i \in DOMAIN entries :
        Predecessor(i) # 0 =>
            entries[i].distance_since_last =
                <<entries[i].odometer - entries[Predecessor(i)].odometer>>

\* C2: along (entry_date, creation order) the odometers of a vehicle's entries
\* strictly increase, and the first is above the vehicle's initial_odometer.
C2_OdometerStrictlyIncreasing ==
    \A i \in DOMAIN entries :
        /\ entries[i].odometer > vehicles[entries[i].vehicle].initial_odometer
        /\ Predecessor(i) # 0 => entries[i].odometer > entries[Predecessor(i)].odometer

\* The stored derived fields of entry i are those the formulas give for the
\* distance to entry p.
DerivedFrom(i, p) ==
    LET e == entries[i]
        distance == e.odometer - entries[p].odometer
    IN  /\ e.distance_since_last = <<distance>>
        /\ IF distance > 0
           THEN /\ e.consumption_l_100km # None
                /\ RoundedTo(e.consumption_l_100km[1], e.liters * 100, distance,
                             ConsumptionPlaces)
                /\ e.cost_per_km # None
                /\ RoundedTo(e.cost_per_km[1], e.total_amount, distance, CostPerKmPlaces)
           ELSE e.consumption_l_100km = None /\ e.cost_per_km = None

\* C4: after delete_entry every surviving entry of the vehicle that has a
\* predecessor among the survivors holds derived fields computed against that
\* predecessor, so the successor of the deleted entry holds its odometer minus
\* the odometer of the deleted entry's predecessor.
C4_DeleteRebuildsChain ==
    (response.op = "delete_entry" /\ response.status = 204) =>
        \A i \in DOMAIN entries :
            (entries[i].vehicle = response.vehicle /\ Predecessor(i) # 0) =>
                DerivedFrom(i, Predecessor(i))

\* An entry was deleted from between two survivors, and the later one now holds
\* the distance to the earlier one.
C4_Witness ==
    /\ response.op = "delete_entry"
    /\ response.status = 204
    /\ \E i \in DOMAIN entries :
        /\ entries[i].vehicle = response.vehicle
        /\ Predecessor(i) # 0
        /\ KeyBefore(entries[Predecessor(i)].entry_date, entries[Predecessor(i)].created_at,
                     response.request[1], response.request[2])
        /\ KeyBefore(response.request[1], response.request[2],
                     entries[i].entry_date, entries[i].created_at)
        /\ entries[i].distance_since_last =
                <<entries[i].odometer - entries[Predecessor(i)].odometer>>

\* C5: for the first entry of a vehicle the calculator sets distance_since_last
\* to the odometer minus the vehicle's initial_odometer and, when that is
\* positive, computes consumption_l_100km and cost_per_km from it.
C5_FirstEntryFromInitialOdometer ==
    (EntryWritten /\ Predecessor(response.id) = 0) =>
        LET e == entries[response.id]
            distance == e.odometer - vehicles[e.vehicle].initial_odometer
        IN  /\ response.metrics.distance_since_last = <<distance>>
            /\ distance > 0 =>
                /\ response.metrics.consumption_l_100km # None
                /\ response.metrics.cost_per_km # None

\* C6: update_vehicle carrying an initial_odometer that exceeds no entry's
\* odometer succeeds and persists the value, and afterwards the first entry's
\* distance_since_last is its odometer minus the new initial_odometer.
C6_InitialOdometerChangeApplied ==
    LET vehicle == response.vehicle
        mine == {i \in DOMAIN entries : entries[i].vehicle = vehicle}
    IN  ( /\ response.op = "update_vehicle"
          /\ response.request # <<>>
          /\ response.request[1] # Absent
          /\ \A i \in mine : response.request[1] <= entries[i].odometer ) =>
            /\ response.status = 200
            /\ vehicles[vehicle].initial_odometer = response.request[1]
            /\ \A i \in mine :
                Predecessor(i) = 0 =>
                    entries[i].distance_since_last =
                        <<entries[i].odometer - response.request[1]>>

\* C7: for an entry with odometer o, liters L, amount A and a predecessor with
\* odometer p < o the calculator yields distance o - p, consumption
\* L / (o - p) * 100, cost per km A / (o - p) and unit price A / L.
C7_CalculatorFormulas ==
    LET m == response.metrics
        e == entries[response.id]
        distance == e.odometer - entries[m.previous_entry].odometer
    IN  (EntryWritten /\ m.previous_entry # 0 /\ distance > 0) =>
            /\ m.distance_since_last = <<distance>>
            /\ m.consumption_l_100km # None
            /\ m.consumption_l_100km[1] * distance = e.liters * 100 * m.consumption_l_100km[2]
            /\ m.cost_per_km # None
            /\ m.cost_per_km[1] * distance = e.total_amount * m.cost_per_km[2]
            /\ m.unit_price # None
            /\ m.unit_price[1] * e.liters = e.total_amount * m.unit_price[2]
            /\ DerivedFrom(response.id, m.previous_entry)
            /\ RoundedTo(e.unit_price[1], e.total_amount, e.liters, UnitPricePlaces)

\* An entry was written whose predecessor has a lower odometer.
C7_Witness ==
    /\ EntryWritten
    /\ response.metrics.previous_entry # 0
    /\ entries[response.id].odometer > entries[response.metrics.previous_entry].odometer
    /\ response.metrics.consumption_l_100km # None
    /\ entries[response.id].cost_per_km # None

\* C8: whenever the distance computed for an entry is zero or negative,
\* consumption_l_100km and cost_per_km are null (nothing is divided by it) and
\* the distance itself is stored.
C8_NonPositiveDistanceNullsDerived ==
    /\ \A i \in DOMAIN entries :
        (entries[i].distance_since_last # None /\ entries[i].distance_since_last[1] <= 0) =>
            entries[i].consumption_l_100km = None /\ entries[i].cost_per_km = None
    /\ LET m == response.metrics
           e == entries[response.id]
           distance == e.odometer - entries[m.previous_entry].odometer
       IN  (EntryWritten /\ m.previous_entry # 0 /\ distance <= 0) =>
                /\ m.distance_since_last = <<distance>>
                /\ e.distance_since_last = <<distance>>
                /\ m.consumption_l_100km = None
                /\ m.cost_per_km = None

\* An entry was written behind an entry with a higher odometer: the negative
\* distance is stored, the derived fields are null.
C8_Witness ==
    /\ EntryWritten
    /\ response.metrics.previous_entry # 0
    /\ response.metrics.distance_since_last # None
    /\ response.metrics.distance_since_last[1] <= 0
    /\ entries[response.id].distance_since_last = response.metrics.distance_since_last
    /\ entries[response.id].consumption_l_100km = None

\* C9: on create_entry the predecessor the distance is computed against is the
\* last entry before (entry_date, now): with entries on the same entry_date,
\* the latest of them.
C9_CreateUsesOrderingPredecessor ==
    (response.op = "create_entry" /\ response.status = 201
        /\ Predecessor(response.id) # 0) =>
            /\ response.metrics.previous_entry = Predecessor(response.id)
            /\ response.metrics.distance_since_last =
                <<entries[response.id].odometer - entries[Predecessor(response.id)].odometer>>

\* What the specification has create_entry answer for a candidate entry of
\* `vehicle` at entry_date with `odometer`, against the tables E and V: the new
\* entry sorts after every entry of its day.
ExpectedRejection(E, V, vehicle, entry_date, odometer) ==
    LET before == {j \in DOMAIN E : E[j].vehicle = vehicle /\ E[j].entry_date <= entry_date}
        after == {j \in DOMAIN E : E[j].vehicle = vehicle /\ E[j].entry_date > entry_date}
        p == IF before = {} THEN 0 ELSE Latest(E, before)
        n == IF after = {} THEN 0 ELSE Earliest(E, after)
    IN  IF odometer <= V[vehicle].initial_odometer
        THEN <<"odometer_le_initial", <<V[vehicle].initial_odometer>>>>
        ELSE IF p # 0 /\ odometer <= E[p].odometer
        THEN <<"odometer_le_previous", <<E[p].odometer, E[p].entry_date>>>>
        ELSE IF n # 0 /\ odometer >= E[n].odometer
        THEN <<"odometer_ge_next", <<E[n].odometer, E[n].entry_date>>>>
        ELSE <<"ok", <<>>>>

\* The step is a create_entry whose fields are valid in themselves: a date not
\* in the future, positive odometer, liters and amount, and a (vehicle,
\* entry_date, odometer) no stored entry holds.
ValidCreateStep ==
    /\ response'.op = "create_entry"
    /\ response'.request[1] <= Today
    /\ response'.request[2] > 0
    /\ response'.request[3] > 0
    /\ response'.request[4] > 0
    /\ ~ \E i \in DOMAIN entries :
            /\ entries[i].vehicle = response'.vehicle
            /\ entries[i].entry_date = response'.request[1]
            /\ entries[i].odometer = response'.request[2]

C10_Step ==
    ValidCreateStep =>
        LET x == ExpectedRejection(entries, vehicles, response'.vehicle,
                                   response'.request[1], response'.request[2])
        IN  /\ response'.code = x[1]
            /\ response'.detail = x[2]
            /\ IF x[1] = "ok"
               THEN /\ response'.status = 201
                    /\ response'.id \notin DOMAIN entries
                    /\ response'.id \in DOMAIN entries'
               ELSE /\ response'.status = 400
                    /\ entries' = entries
                    /\ vehicles' = vehicles

C3_InsertRecomputesFollowers ==
    LET new == entries[response.id]
        mine == {j \in DOMAIN entries : j # response.id /\ entries[j].vehicle = new.vehicle}
    IN  ( /\ response.op = "create_entry"
          /\ response.status = 201
          /\ \E a \in mine : entries[a].entry_date < new.entry_date
          /\ \E b \in mine : entries[b].entry_date > new.entry_date ) =>
            /\ new.distance_since_last =
                    <<new.odometer - entries[Predecessor(response.id)].odometer>>
            /\ \A j \in mine :
                    entries[j].entry_date > new.entry_date =>
                        entries[j].distance_since_last =
                            <<entries[j].odometer - entries[Predecessor(j)].odometer>>

\* The immediate predecessor and successor of entry i among the entries E of
\* its vehicle in (entry_date, creation order); 0 when there is none.
PredecessorIn(E, i) ==
    LET S == {j \in DOMAIN E :
                /\ E[j].vehicle = E[i].vehicle
                /\ KeyBefore(E[j].entry_date, E[j].created_at, E[i].entry_date, E[i].created_at)}
    IN  IF S = {} THEN 0 ELSE Latest(E, S)

SuccessorIn(E, i) ==
    LET S == {j \in DOMAIN E :
                /\ E[j].vehicle = E[i].vehicle
                /\ KeyBefore(E[i].entry_date, E[i].created_at, E[j].entry_date, E[j].created_at)}
    IN  IF S = {} THEN 0 ELSE Earliest(E, S)

\* The step commits an update of a stored entry.
UpdateCommitted ==
    /\ response'.op = "update_entry"
    /\ response'.status = 200
    /\ response'.id \in DOMAIN entries

C11_Step ==
    LET id == response'.id
        p == PredecessorIn(entries', id)
        n == SuccessorIn(entries', id)
    IN  ( /\ UpdateCommitted
          /\ entries'[id].entry_date # entries[id].entry_date
          /\ entries'[id].odometer = entries[id].odometer
          /\ entries'[id].vehicle = entries[id].vehicle ) =>
            /\ p # 0 => entries'[id].odometer > entries'[p].odometer
            /\ n # 0 => entries'[id].odometer < entries'[n].odometer

\* C11: an update_entry that changes only entry_date is accepted only if the
\* entry's odometer lies strictly between those of its neighbors at the new
\* position; otherwise it is rejected and nothing changes.
C11_DateChangeRevalidated == [][C11_Step]_vars

C12_Step ==
    LET id == response'.id
    IN  ( /\ UpdateCommitted
          /\ entries'[id].entry_date = entries[id].entry_date
          /\ entries'[id].odometer = entries[id].odometer
          /\ entries'[id].vehicle = entries[id].vehicle ) =>
            \A j \in DOMAIN entries \ {id} : entries'[j] = entries[j]

\* C12: an update_entry that changes neither odometer, entry_date nor vehicle
\* rewrites the derived fields of no other entry.
C12_UnrelatedUpdateHasNoCascade == [][C12_Step]_vars

C13_Step ==
    LET id == response'.id
    IN  ( /\ response'.op \in {"create_entry", "update_entry"}
          /\ response'.status \in {200, 201} ) =>
            \A j \in DOMAIN entries \ {id} :
                ( /\ entries'[j].vehicle = entries'[id].vehicle
                  /\ KeyBefore(entries'[j].entry_date, entries'[j].created_at,
                               entries'[id].entry_date, entries'[id].created_at) ) =>
                    entries'[j] = entries[j]

\* C13: create_entry and update_entry leave every entry that is ordered before
\* the created or updated entry in its vehicle as it was stored.
C13_EarlierEntriesUntouched == [][C13_Step]_vars

\* An entry was written between an earlier and a later entry of its vehicle.
C13_Witness ==
    /\ EntryWritten
    /\ PredecessorIn(entries, response.id) # 0
    /\ SuccessorIn(entries, response.id) # 0
    /\ entries[SuccessorIn(entries, response.id)].distance_since_last # None

C14_Step ==
    response'.status \notin {200, 201, 204} =>
        /\ vehicles' = vehicles
        /\ entries' = entries

\* C14: a write that fails in validation, calculation or cascade leaves the
\* stored vehicles and entries, derived fields included, as they were.
C14_FailedWriteChangesNothing == [][C14_Step]_vars

\* update_vehicle failed after the serializer had saved the new
\* initial_odometer, and the vehicle holds the old value.
C14_Witness ==
    /\ response.op = "update_vehicle"
    /\ response.status = 500
    /\ response.request[1] # vehicles[response.vehicle].initial_odometer

\* C15: running the full recalculation of a vehicle twice in a row gives every
\* entry the derived fields the first run gave it; so a run right after the
\* one delete_entry made changes nothing.
C15_FullRecalculationIdempotent ==
    /\ \A v \in DOMAIN vehicles :
        LET once == recalculate_all_metrics_for_vehicle(entries, vehicles, v)
        IN  recalculate_all_metrics_for_vehicle(once, vehicles, v) = once
    /\ (response.op = "delete_entry" /\ response.status = 204) =>
        recalculate_all_metrics_for_vehicle(entries, vehicles, response.vehicle) = entries

\* The first run rewrites a stored value and stores rounded quotients.
C15_Witness ==
    \E v \in DOMAIN vehicles :
        LET once == recalculate_all_metrics_for_vehicle(entries, vehicles, v)
        IN  /\ once # entries
            /\ \E i \in DOMAIN once :
                /\ once[i].vehicle = v
                /\ once[i].consumption_l_100km # None
                /\ once[i].cost_per_km # None

\* ---------------------------------------------------------------------------
\* Dashboard statistics
\* ---------------------------------------------------------------------------

\* The dashboard answered a query with statistics.
StatsAnswered == response.op = "dashboard_statistics" /\ response.status = 200

AskedUser == response.request[1]
AskedVehicle == response.request[2]
WindowFrom == IF response.request[3] = "custom" THEN response.request[4] ELSE Today - DefaultPeriodDays
WindowTo == IF response.request[3] = "custom" THEN response.request[5] ELSE Today

\* The entries the answered query is about.
InWindow ==
    {i \in DOMAIN entries :
        /\ entries[i].user = AskedUser
        /\ WindowFrom <= entries[i].entry_date
        /\ entries[i].entry_date <= WindowTo
        /\ (AskedVehicle # 0 => entries[i].vehicle = AskedVehicle)}

InWindowOf(v) == {i \in InWindow : entries[i].vehicle = v}

\* Highest odometer of the vehicle's entries of the window minus the vehicle's
\* initial_odometer, 0 for a vehicle without entries in the window.
Travelled(v) ==
    IF InWindowOf(v) = {} THEN 0
    ELSE (CHOOSE o \in {entries[i].odometer : i \in InWindowOf(v)} :
              \A i \in InWindowOf(v) : entries[i].odometer <= o)
         - vehicles[v].initial_odometer

ExpectedDistance == SumOver([v \in DOMAIN vehicles |-> Travelled(v)], DOMAIN vehicles)

StoredDistances ==
    SumOver([i \in DOMAIN entries |-> IF entries[i].distance_since_last = None THEN 0
                                      ELSE entries[i].distance_since_last[1]], InWindow)

\* C16: the total_distance of the dashboard is the sum, over the vehicles with
\* an entry of the user in the window, of the highest odometer in the window
\* minus the vehicle's initial_odometer; it is not the sum of the stored
\* distance_since_last of the entries.
C16_TotalDistanceFromInitialOdometer ==
    StatsAnswered => response.detail.total_distance = ExpectedDistance

\* An answered window whose entries' distance_since_last do not add up to the
\* distance from the initial odometer.
C16_Witness ==
    /\ StatsAnswered
    /\ InWindow # {}
    /\ StoredDistances # ExpectedDistance
    /\ response.detail.total_distance = ExpectedDistance

WindowLiters == SumOver([i \in DOMAIN entries |-> entries[i].liters], InWindow)
WindowAmount == SumOver([i \in DOMAIN entries |-> entries[i].total_amount], InWindow)

\* C17: the average_consumption of the dashboard is the liters of all the
\* entries of the window, baseline entries included, divided by total_distance
\* and multiplied by 100 (rounded to one decimal), and null when total_distance
\* is not positive.
C17_AverageConsumptionCountsAllLiters ==
    StatsAnswered =>
        IF ExpectedDistance > 0
        THEN /\ response.detail.average_consumption # None
             /\ RoundedTo(response.detail.average_consumption[1],
                          WindowLiters * 100, ExpectedDistance, 1)
        ELSE response.detail.average_consumption = None

\* C18: total_liters, total_spent and fill_up_count of the dashboard are taken
\* over exactly the requesting user's entries dated inside the window (of the
\* vehicle when one is given), entries with null consumption included; no
\* other entry contributes.
C18_TotalsOverExactlyTheWindow ==
    StatsAnswered =>
        /\ response.detail.total_liters = 100 * WindowLiters
        /\ response.detail.total_spent = 100 * WindowAmount
        /\ response.detail.fill_up_count = Cardinality(InWindow)

\* An answer that counts an entry with null consumption while an entry of the
\* same user lies outside the window or on another vehicle.
C18_Witness ==
    /\ StatsAnswered
    /\ \E i \in InWindow : entries[i].consumption_l_100km = None
    /\ \E j \in DOMAIN entries \ InWindow : entries[j].user = AskedUser
    /\ response.detail.fill_up_count = Cardinality(InWindow)
    /\ response.detail.total_liters = 100 * WindowLiters

\* An answer to one user while another user has an entry dated in the window.
C18_OtherUserWitness ==
    /\ StatsAnswered
    /\ \E j \in DOMAIN entries :
        /\ entries[j].user # AskedUser
        /\ WindowFrom <= entries[j].entry_date
        /\ entries[j].entry_date <= WindowTo
    /\ response.detail.fill_up_count = Cardinality(InWindow)

StatsKeys ==
    {"average_consumption", "average_unit_price", "average_cost_per_km", "total_distance",
     "total_liters", "total_spent", "fill_up_count", "entry_count", "total_fuel", "total_cost",
     "average_distance_per_day", "min_consumption", "max_consumption"}

\* C19: a query whose window holds no entry of the user succeeds with every
\* key present: the counts, totals and total_distance are 0 and every average
\* and rate is null.
C19_EmptyWindowZerosAndNulls ==
    (StatsAnswered /\ InWindow = {}) =>
        /\ DOMAIN response.detail = StatsKeys
        /\ response.detail.entry_count = 0
        /\ response.detail.fill_up_count = 0
        /\ response.detail.total_liters = 0
        /\ response.detail.total_fuel = 0
        /\ response.detail.total_spent = 0
        /\ response.detail.total_cost = 0
        /\ response.detail.total_distance = 0
        /\ response.detail.average_consumption = None
        /\ response.detail.average_unit_price = None
        /\ response.detail.average_cost_per_km = None
        /\ response.detail.average_distance_per_day = None
        /\ response.detail.min_consumption = None
        /\ response.detail.max_consumption = None

\* An answer for a window that holds none of the user's entries although the
\* user has an entry dated before it.
C19_Witness ==
    /\ StatsAnswered
    /\ InWindow = {}
    /\ WindowFrom <= WindowTo
    /\ \E i \in DOMAIN entries :
        /\ entries[i].user = AskedUser
        /\ entries[i].entry_date < WindowFrom
        /\ entries[i].consumption_l_100km # None
    /\ response.detail.entry_count = 0
    /\ response.detail.average_consumption = None

WindowDates == {entries[i].entry_date : i \in InWindow}
RequestedDays == WindowTo - WindowFrom + 1

\* Days from the first to the last entry of the window, both included.
ActualDays ==
    (CHOOSE l \in WindowDates : \A x \in WindowDates : x <= l)
        - (CHOOSE f \in WindowDates : \A x \in WindowDates : f <= x) + 1

ExpectedDays == IF RequestedDays < ActualDays THEN RequestedDays ELSE ActualDays

\* C20: average_distance_per_day is total_distance divided by period_days
\* (rounded to one decimal), period_days being the smaller of the length of
\* the requested window and the days from the first to the last entry of the
\* window; it is null when the window has no entry or total_distance is not
\* positive, and period_days is positive whenever the division is made.
C20_AverageDistancePerDay ==
    StatsAnswered =>
        IF InWindow = {} \/ ExpectedDistance <= 0
        THEN response.detail.average_distance_per_day = None
        ELSE /\ ExpectedDays > 0
             /\ response.detail.average_distance_per_day # None
             /\ RoundedTo(response.detail.average_distance_per_day[1],
                          ExpectedDistance, ExpectedDays, 1)

\* An answer whose entries span two days of a longer requested window.
C20_Witness ==
    /\ StatsAnswered
    /\ InWindow # {}
    /\ ActualDays = 2
    /\ RequestedDays > ActualDays
    /\ response.detail.average_distance_per_day # None
    /\ RoundedTo(response.detail.average_distance_per_day[1], ExpectedDistance, 2, 1)

\* ---------------------------------------------------------------------------
\* Statistics by brand and by grade
\* ---------------------------------------------------------------------------

\* The statistics by brand, or by grade, were answered.
GroupsAnswered == response.op \in {"brand_statistics", "grade_statistics"} /\ response.status = 200

\* The column the answer groups by and the key it reports the group under.
GroupColumn == IF response.op = "brand_statistics" THEN "fuel_brand" ELSE "fuel_grade"
GroupKey == IF response.op = "brand_statistics" THEN "brand" ELSE "grade"

\* The entries of the asking user, of the vehicle asked for if any, that carry
\* the label.
Labelled(label) ==
    {i \in DOMAIN entries :
        /\ entries[i].user = response.request[1]
        /\ (response.request[2] # 0 => entries[i].vehicle = response.request[2])
        /\ entries[i][GroupColumn] = label}

GroupLiters(label) == SumOver([i \in DOMAIN entries |-> entries[i].liters], Labelled(label))
GroupAmount(label) == SumOver([i \in DOMAIN entries |-> entries[i].total_amount], Labelled(label))
GroupDistance(label) ==
    SumOver([i \in DOMAIN entries |-> IF entries[i].distance_since_last = None THEN 0
                                      ELSE entries[i].distance_since_last[1]], Labelled(label))

\* The value reported is the quotient n / d rounded to `places` decimal places,
\* and null when the denominator is zero.
QuotientOrNull(value, n, d, places) ==
    IF d = 0 THEN value = None
    ELSE /\ value # None
         /\ RoundedTo(value[1] * (IF d < 0 THEN -1 ELSE 1), n, IF d < 0 THEN -d ELSE d, places)

\* The group reported is what the claim tells for its label.
GroupAsClaimed(g) ==
    LET label == g[GroupKey]
    IN  /\ label # ""
        /\ g.fill_count = Cardinality(Labelled(label))
        /\ g.fill_count > 0
        /\ QuotientOrNull(g.average_unit_price, GroupAmount(label), GroupLiters(label), 2)
        /\ QuotientOrNull(g.average_consumption, 100 * GroupLiters(label), GroupDistance(label), 1)
        /\ QuotientOrNull(g.average_cost_per_km, GroupAmount(label), GroupDistance(label), 4)

\* C21: the statistics by brand (by grade) report one group per non-blank brand
\* (grade) of the user's entries, of the vehicle asked for if any, with
\* fill_count the number of entries, average_unit_price = sum(total_amount) /
\* sum(liters), average_consumption = sum(liters) / sum(distance_since_last) *
\* 100 and average_cost_per_km = sum(total_amount) / sum(distance_since_last),
\* each null when its denominator is zero, in descending order of fill_count.
\* (Stated of the answers computed from the tables, not of those served from
\* the cache.)
C21_GroupStatistics ==
    (GroupsAnswered /\ response.effect) =>
        LET result == response.detail
        IN  /\ \A k \in DOMAIN result : GroupAsClaimed(result[k])
            /\ \A j, k \in DOMAIN result : j # k => result[j][GroupKey] # result[k][GroupKey]
            /\ \A i \in DOMAIN entries :
                   Labelled(entries[i][GroupColumn]) # {} /\ entries[i][GroupColumn] # ""
                       => \E k \in DOMAIN result : result[k][GroupKey] = entries[i][GroupColumn]
            /\ \A j, k \in DOMAIN result : j < k => result[j].fill_count >= result[k].fill_count

\* C21 for an answer computed from the tables, where no group has travelled a
\* negative distance in total.
C21_WhereDistancesAddUp ==
    (GroupsAnswered /\ \A i \in DOMAIN entries : GroupDistance(entries[i][GroupColumn]) >= 0)
        => C21_GroupStatistics

\* ---------------------------------------------------------------------------
\* The statistics cache
\* ---------------------------------------------------------------------------

\* One of the three statistics was answered.
StatisticsServed ==
    /\ response.op \in {"dashboard_statistics", "brand_statistics", "grade_statistics"}
    /\ response.status = 200

\* What the statistics answered would be if computed from the tables as they
\* are now (for the groups: in one of the orders they may come in).
FreshlyComputed ==
    IF response.op = "dashboard_statistics"
    THEN response.detail =
            calculate_dashboard_statistics(entries, vehicles, response.request[1],
                                           response.request[2], response.request[3],
                                           response.request[4], response.request[5])
    ELSE IF response.op = "brand_statistics"
    THEN response.detail \in OrderByFillCount(
            calculate_brand_statistics(entries, response.request[1], response.request[2]))
    ELSE response.detail \in OrderByFillCount(
            calculate_grade_statistics(entries, response.request[1], response.request[2]))

\* C22: whatever mutation of the user's entries or vehicles was committed
\* before, a statistics read by the user answers what a fresh computation from
\* the stored entries gives: a result cached before the mutation is not served
\* after it.
C22_NoStaleStatistics == StatisticsServed => FreshlyComputed

\* The step is a statistics read, answered or rejected.
StatisticsRead ==
    response'.op \in {"dashboard_statistics", "brand_statistics", "grade_statistics"}

\* The cache record a read of the next response may have stored: one of the
\* asking user, under a key formed with the user's version, holding the answer.
StoredByRead(c) ==
    /\ response'.status = 200
    /\ c.key[1] = (IF response'.op = "dashboard_statistics" THEN "dashboard_stats"
                   ELSE IF response'.op = "brand_statistics" THEN "brand_stats"
                   ELSE "grade_stats")
    /\ c.key[2] = stats_version[response'.request[1]]
    /\ c.key[3] = response'.request[2]
    /\ c.result = response'.detail

C23_Step ==
    StatisticsRead =>
        /\ stats_version' = stats_version
        /\ vehicles' = vehicles
        /\ entries' = entries
        /\ \A u \in Users :
            \/ stats_cache'[u] = stats_cache[u]
            \/ /\ u = response'.request[1]
               /\ \E c \in stats_cache'[u] :
                    /\ StoredByRead(c)
                    /\ c \notin stats_cache[u]
                    /\ \A k \in stats_cache[u] : k.key # c.key
                    /\ stats_cache'[u] = stats_cache[u] \cup {c}

\* C23: a statistics read, whether it finds the result cached, computes it or
\* rejects the query, leaves every user's version token as it was and writes
\* at most the result it computed, under the key of the query, to the cache;
\* the token changes on the mutation paths only.
C23_ReadsLeaveVersionAlone == [][C23_Step]_vars

\* A read by a user whose version was set by an earlier mutation computed and
\* cached its result, and the version is still the one the mutation set.
C23_Witness ==
    /\ StatisticsServed
    /\ response.effect
    /\ stats_version[response.request[1]] > DefaultVersion
    /\ \E c \in stats_cache[response.request[1]] :
        /\ c.key[1] = "brand_stats"
        /\ response.op = "brand_statistics"
        /\ c.key[2] = stats_version[response.request[1]]
        /\ c.result = response.detail
    /\ entries # <<>>

\* ---------------------------------------------------------------------------
\* Ownership
\* ---------------------------------------------------------------------------

\* C24: every stored entry belongs to the user who owns its vehicle; a create
\* or update naming a vehicle of another user stores or moves nothing.
C24_EntryUserOwnsVehicle ==
    \A i \in DOMAIN entries :
        /\ entries[i].vehicle \in DOMAIN vehicles
        /\ entries[i].user = vehicles[entries[i].vehicle].user

\* The step is a request that addresses one vehicle or one entry by its id.
AddressedById ==
    response'.op \in {"retrieve_entry", "update_entry", "delete_entry",
                      "retrieve_vehicle", "update_vehicle", "delete_vehicle"}

C25_Step ==
    AddressedById =>
        /\ response'.status = 404
        /\ response'.detail = <<>>
        /\ vehicles' = vehicles
        /\ entries' = entries
        /\ stats_version' = stats_version
        /\ stats_cache' = stats_cache

\* C25: where every vehicle and entry belongs to user 1 and user 2 sends the
\* requests, a retrieve, update or delete of a vehicle or an entry is answered
\* 404 (not 403), returns nothing of the resource, and leaves the vehicles,
\* the input and derived fields of every entry and the owner's statistics
\* version as they were.
C25_OthersResourcesNotFound == [][C25_Step]_vars

\* User 2 asked to delete an entry of user 1 that has a successor whose derived
\* fields a deletion would rewrite, and was answered 404.
C25_Witness ==
    /\ response.op = "delete_entry"
    /\ response.status = 404
    /\ response.id \in DOMAIN entries
    /\ entries[response.id].user = 1
    /\ \E j \in DOMAIN entries : entries[j].distance_since_last # None
    /\ stats_version[1] > DefaultVersion

\* ---------------------------------------------------------------------------
\* Deletion of a vehicle
\* ---------------------------------------------------------------------------

\* The step is a deletion of a vehicle that succeeded.
VehicleDeleted == response'.op = "delete_vehicle" /\ response'.status = 204

C26_Step ==
    /\ \A i \in DOMAIN entries' : entries'[i].vehicle \in DOMAIN vehicles'
    /\ VehicleDeleted =>
        /\ response'.vehicle \in DOMAIN vehicles
        /\ DOMAIN vehicles' = DOMAIN vehicles \ {response'.vehicle}
        /\ \A v \in DOMAIN vehicles' : vehicles'[v] = vehicles[v]
        /\ DOMAIN entries' = {i \in DOMAIN entries : entries[i].vehicle # response'.vehicle}
        /\ \A i \in DOMAIN entries' : entries'[i] = entries[i]

\* C26: a successful deletion of a vehicle removes the vehicle and exactly the
\* entries that belonged to it and leaves the other vehicles and their entries
\* as they were; no stored entry ever references a vehicle that is not stored.
C26_VehicleDeletionCascades == [][C26_Step]_vars

\* A vehicle was deleted after two entries were created and two requests had
\* been committed before: one entry went with the vehicle, one entry of the
\* other vehicle is left.
C26_Witness ==
    /\ response.op = "delete_vehicle"
    /\ response.status = 204
    /\ response.vehicle \notin DOMAIN vehicles
    /\ next_id = 3
    /\ requests = 3
    /\ Cardinality(DOMAIN entries) = 1
    /\ \A i \in DOMAIN entries : entries[i].vehicle # response.vehicle

\* ---------------------------------------------------------------------------
\* Concurrent writes to one vehicle
\* ---------------------------------------------------------------------------

\* Process w finishes its request in the step.
Finishes(w) == in_flight[w] # None /\ in_flight'[w] = None

\* The row the step wrote is the row the request was validated with.
WroteAsValidated(r) ==
    /\ response'.status = IF r.op = "create_entry" THEN 201 ELSE 200
    /\ response'.id \in DOMAIN entries'
    /\ entries'[response'.id].vehicle = r.vehicle
    /\ entries'[response'.id].entry_date = r.entry_date
    /\ entries'[response'.id].odometer = r.odometer

C27_Step ==
    \A w \in Workers :
        (Finishes(w) /\ ~UniqueConflict(entries, in_flight[w].vehicle, in_flight[w].entry_date,
                                        in_flight[w].odometer, in_flight[w].id))
            => WroteAsValidated(in_flight[w])

\* C27: a create or an update that passed the ordering check against the rows
\* it read is committed as validated whatever another request committed on the
\* vehicle in between (only a duplicate of vehicle, date and odometer is
\* refused, by the database): nothing serialises the check with the write.
C27_ValidatedWritesCommit == [][C27_Step]_vars

\* The entries of a vehicle read in order of date and creation do not have
\* strictly increasing odometers.
OutOfOrder ==
    \E i, j \in DOMAIN entries :
        /\ i # j
        /\ entries[i].vehicle = entries[j].vehicle
        /\ Before(entries[i], entries[j])
        /\ entries[i].odometer >= entries[j].odometer

\* Two creations, and nothing else, were committed, both processes are done,
\* and the two entries of the vehicle are out of order.
C27_Witness ==
    /\ requests = 2
    /\ next_id = 3
    /\ DOMAIN entries = {1, 2}
    /\ \A w \in Workers : in_flight[w] = None
    /\ response.op = "create_entry"
    /\ response.status = 201
    /\ OutOfOrder

\* ---------------------------------------------------------------------------
\* Validation of the period of a statistics read
\* ---------------------------------------------------------------------------

\* The step answers a dashboard read.
DashboardRead == response'.op = "dashboard_statistics"

\* The step answers an error: the status is 400 with the code, no statistics
\* are returned, and neither the tables nor the cache nor the version change.
AnswersError(code) ==
    /\ response'.status = 400
    /\ response'.code = code
    /\ response'.detail = <<>>
    /\ ~response'.effect
    /\ UNCHANGED <<vehicles, entries, stats_cache, stats_version>>

\* The entries of the user asking, of the vehicle asked for if any, dated
\* within the bounds sent.
WithinSentBounds ==
    {i \in DOMAIN entries :
        /\ entries[i].user = response'.request[1]
        /\ (response'.request[2] # 0 => entries[i].vehicle = response'.request[2])
        /\ entries[i].entry_date >= response'.request[4]
        /\ entries[i].entry_date <= response'.request[5]}

C28_Step ==
    (DashboardRead /\ response'.request[3] = "custom") =>
        LET date_after == response'.request[4]
            date_before == response'.request[5]
        IN  IF date_after = Absent \/ date_before = Absent
            THEN AnswersError("missing_dates")
            ELSE IF date_after = 0 \/ date_before = 0
            THEN AnswersError("invalid_date_format")
            ELSE IF date_before - date_after > MaxCustomDays
            THEN AnswersError("period_too_long")
            ELSE /\ response'.status = 200
                 /\ response'.effect =>
                        /\ response'.detail.entry_count = Cardinality(WithinSentBounds)
                        /\ response'.detail.total_fuel =
                              SumOver([i \in DOMAIN entries |-> entries[i].liters],
                                      WithinSentBounds) * 100

\* C28: a custom dashboard read that lacks date_after or date_before is
\* answered missing_dates, one whose date_before is more than 365 days after
\* date_after is answered period_too_long, and neither computes or caches
\* anything; any other custom read with well-formed dates is answered with the
\* statistics of the entries dated within exactly the bounds sent.
C28_CustomPeriodBounds == [][C28_Step]_vars

\* A custom read over the longest range accepted, 365 days up to today, was
\* computed and counts the entries of the user.
C28_Witness ==
    /\ response.op = "dashboard_statistics"
    /\ response.status = 200
    /\ response.effect
    /\ response.request[3] = "custom"
    /\ response.request[5] - response.request[4] = MaxCustomDays
    /\ response.detail.entry_count > 0

C29_Step ==
    (DashboardRead /\ response'.request[3] \notin {"30d", "90d", "ytd", "custom"})
        => AnswersError("invalid_period")

\* C29: a dashboard read whose period is none of 30d, 90d, ytd and custom is
\* answered with the error invalid_period, returns no statistics and leaves the
\* cache as it was.
C29_UnknownPeriodRejected == [][C29_Step]_vars

\* An unknown period was rejected while the user asking has entries and a
\* cached result.
C29_Witness ==
    /\ response.op = "dashboard_statistics"
    /\ response.code = "invalid_period"
    /\ response.status = 400
    /\ stats_cache[response.request[1]] # {}
    /\ \E i \in DOMAIN entries : entries[i].user = response.request[1]

\* ---------------------------------------------------------------------------
\* The baseline entry of a vehicle
\* ---------------------------------------------------------------------------

\* The stored row i holds a unit price, total_amount / liters rounded to the
\* places of the column, and none of the attributes derived from a distance.
StoredAsBaseline(i) ==
    /\ entries[i].unit_price # None
    /\ RoundedTo(entries[i].unit_price[1], entries[i].total_amount, entries[i].liters,
                 UnitPricePlaces)
    /\ entries[i].distance_since_last = None
    /\ entries[i].consumption_l_100km = None
    /\ entries[i].cost_per_km = None

C31_FollowersHavePositiveDistance ==
    \A i \in DOMAIN entries :
        Predecessor(i) # 0 =>
            /\ entries[i].distance_since_last # None
            /\ entries[i].distance_since_last[1] > 0
            /\ entries[i].consumption_l_100km # None
            /\ entries[i].cost_per_km # None

\* ---------------------------------------------------------------------------
\* Neighbours of a position in the order of a vehicle
\* ---------------------------------------------------------------------------

\* The creation marker of a lookup: the stored creation time of the entry
\* excluded when it is stored, the time of the request otherwise.
CreationMarker(excluding_id) ==
    IF excluding_id \in DOMAIN entries THEN entries[excluding_id].created_at ELSE now

\* The entries of the vehicle other than excluding_id strictly before, and
\* strictly after, the position (entry_date, creation marker).
StrictlyBefore(vehicle, entry_date, excluding_id) ==
    {j \in DOMAIN entries \ {excluding_id} :
        /\ entries[j].vehicle = vehicle
        /\ KeyBefore(entries[j].entry_date, entries[j].created_at,
                     entry_date, CreationMarker(excluding_id))}
StrictlyAfter(vehicle, entry_date, excluding_id) ==
    {j \in DOMAIN entries \ {excluding_id} :
        /\ entries[j].vehicle = vehicle
        /\ KeyBefore(entry_date, CreationMarker(excluding_id),
                     entries[j].entry_date, entries[j].created_at)}

\* p is the greatest element of S in the order, or 0 when S is empty; n the
\* least.
GreatestOf(p, S) ==
    IF S = {} THEN p = 0
    ELSE /\ p \in S
         /\ \A j \in S \ {p} : KeyBefore(entries[j].entry_date, entries[j].created_at,
                                         entries[p].entry_date, entries[p].created_at)
LeastOf(n, S) ==
    IF S = {} THEN n = 0
    ELSE /\ n \in S
         /\ \A j \in S \ {n} : KeyBefore(entries[n].entry_date, entries[n].created_at,
                                         entries[j].entry_date, entries[j].created_at)

\* C32: in every state, for every vehicle, date and excluded id, get_previous_entry
\* returns the greatest entry of the vehicle other than the excluded one that
\* is strictly before (date, creation marker) and get_next_entry the least one
\* strictly after it, or none; the marker is the stored creation time of the
\* excluded entry when it is stored and the time of the request otherwise,
\* which is later than every stored creation time.
C32_NeighbourLookups ==
    /\ \A j \in DOMAIN entries : entries[j].created_at < now
    /\ \A vehicle \in Vehicles, entry_date \in 1..MaxDate, x \in 0..MaxId :
        /\ GreatestOf(get_previous_entry(entries, now, vehicle, entry_date, x),
                      StrictlyBefore(vehicle, entry_date, x))
        /\ LeastOf(get_next_entry(entries, now, vehicle, entry_date, x),
                   StrictlyAfter(vehicle, entry_date, x))

\* An update of an entry was refused against an entry of the same day that was
\* created after it: the lookup placed the edited entry at its stored creation
\* time, before that peer, although the request came later.
C32_Witness ==
    /\ response.op = "update_entry"
    /\ response.code = "odometer_ge_next"
    /\ response.id \in DOMAIN entries
    /\ \E j \in DOMAIN entries :
        /\ j # response.id
        /\ entries[j].vehicle = response.vehicle
        /\ entries[j].entry_date = response.detail[2]
        /\ entries[j].odometer = response.detail[1]
        /\ entries[j].created_at > entries[response.id].created_at
        /\ get_next_entry(entries, now, response.vehicle, response.detail[2], response.id) = j
        /\ get_previous_entry(entries, now, response.vehicle, response.detail[2], response.id) # 0

\* ---------------------------------------------------------------------------
\* The initial odometer and the readings of the vehicle
\* ---------------------------------------------------------------------------

\* The entries of a vehicle.
EntriesOf(E, vehicle) == {i \in DOMAIN E : E[i].vehicle = vehicle}

\* The step answers an update of a vehicle that carries an initial_odometer
\* above a reading of the vehicle.
RaisesInitialAboveReading ==
    /\ response'.op = "update_vehicle"
    /\ response'.status # 404
    /\ response'.request[1] # Absent
    /\ \E i \in EntriesOf(entries, response'.vehicle) :
            response'.request[1] > entries[i].odometer

C33_Step ==
    /\ \A v \in DOMAIN vehicles' :
        EntriesOf(entries', v) # {} =>
            vehicles'[v].initial_odometer
                <= entries'[First(entries', EntriesOf(entries', v))].odometer
    /\ RaisesInitialAboveReading =>
        /\ response'.status = 400
        /\ response'.code = "initial_odometer_gt_min"
        /\ UNCHANGED <<vehicles, entries>>

\* C33: an update of a vehicle whose new initial_odometer exceeds the smallest
\* odometer among the entries of the vehicle is rejected and changes neither
\* the vehicle nor an entry, and after every step the initial_odometer of a
\* vehicle does not exceed the odometer of its earliest entry.
C33_InitialOdometerBelowReadings == [][C33_Step]_vars

\* An update of a vehicle was rejected: the value sent lies above the smallest
\* reading of the vehicle and not above its largest.
C33_Witness ==
    /\ response.op = "update_vehicle"
    /\ response.status = 400
    /\ response.code = "initial_odometer_gt_min"
    /\ \E i, j \in EntriesOf(entries, response.vehicle) :
        /\ entries[i].odometer < response.request[1]
        /\ response.request[1] <= entries[j].odometer

\* ---------------------------------------------------------------------------
\* Positive quantities
\* ---------------------------------------------------------------------------

\* The step answers a creation whose body carries liters or a total_amount
\* that is not positive.
CreatesNonPositive ==
    /\ response'.op = "create_entry"
    /\ response'.request # <<>>
    /\ response'.request[3] <= 0 \/ response'.request[4] <= 0

C34_Step ==
    /\ \A i \in DOMAIN entries' :
        /\ entries'[i].liters > 0
        /\ entries'[i].total_amount > 0
        /\ entries'[i].unit_price # None
        /\ RoundedTo(entries'[i].unit_price[1], entries'[i].total_amount, entries'[i].liters,
                     UnitPricePlaces)
    /\ CreatesNonPositive => response'.status = 400
    /\ (response'.op \in {"create_entry", "update_entry"} /\ response'.status = 400)
            => UNCHANGED <<vehicles, entries, stats_cache, stats_version>>

\* C34: after every step every stored entry has liters > 0 and
\* total_amount > 0 and a unit price, total_amount / liters, computed from
\* them; a creation that carries a value that is not positive is rejected, and
\* a rejected creation or update changes nothing.
C34_PositiveQuantities == [][C34_Step]_vars

\* A creation with liters 0 was rejected while entries are stored.
C34_Witness ==
    /\ response.op = "create_entry"
    /\ response.status = 400
    /\ response.code = "invalid"
    /\ response.request[3] = 0
    /\ entries # <<>>

\* ---------------------------------------------------------------------------
\* The cascade of a write and the full rebuild
\* ---------------------------------------------------------------------------

\* C35: after a creation or an update of an entry was committed, a full
\* recalculation of any vehicle would change no stored entry: the stored
\* derived fields are those the full rebuild computes from the entries as they
\* are.
C35_CascadeEqualsRebuild ==
    EntryWritten =>
        \A v \in DOMAIN vehicles :
            recalculate_all_metrics_for_vehicle(entries, vehicles, v) = entries

\* ---------------------------------------------------------------------------
\* Writes of one user and the data of another
\* ---------------------------------------------------------------------------

\* The step commits a write to the entries.
EntryWriteCommitted ==
    /\ response'.op \in {"create_entry", "update_entry", "delete_entry"}
    /\ response'.status \in {200, 201, 204}

\* The user whose request the step serves: the owner of the entry written
\* (get_queryset lets a user address only entries of their own).
Writer ==
    IF response'.op = "create_entry" THEN entries'[response'.id].user
    ELSE entries[response'.id].user

C36_Step ==
    EntryWriteCommitted =>
        /\ \A i \in DOMAIN entries :
            entries[i].user # Writer => (i \in DOMAIN entries' /\ entries'[i] = entries[i])
        /\ \A v \in DOMAIN vehicles :
            vehicles[v].user # Writer =>
                /\ v \in DOMAIN vehicles'
                /\ vehicles'[v] = vehicles[v]
        /\ \A u \in Users \ {Writer} :
            /\ stats_version'[u] = stats_version[u]
            /\ calculate_dashboard_statistics(entries', vehicles', u, 0, "30d", Absent, Absent)
                 = calculate_dashboard_statistics(entries, vehicles, u, 0, "30d", Absent, Absent)

\* C36: a committed write to the entries by one user leaves every entry of
\* every other user, input and derived fields alike, every vehicle of another
\* user and the statistics another user would read as they were: two runs
\* that differ only in the writes of one user agree, step by step, on
\* everything another user owns or reads.
C36_WritesDoNotInterfere == [][C36_Step]_vars

\* ---------------------------------------------------------------------------
\* A statistics read while a write is in its transaction
\* ---------------------------------------------------------------------------

\* No write is between its first statement and its commit.
NoWriteInFlight == \A w \in Workers : in_flight[w] = None

\* The cached dashboard result c of user u is what the dashboard computes from
\* the stored entries for the parameters of its key.
CachedIsCurrent(u, c) ==
    c.key[1] = "dashboard_stats" =>
        c.result = calculate_dashboard_statistics(entries, vehicles, u, c.key[3], c.key[4],
                                                  c.key[5], c.key[6])

\* C37: once every write has committed, whatever is cached for a user under
\* the user's current version was computed from the entries as they are, and a
\* dashboard read answers what a fresh computation gives: no result computed
\* before a mutation is left under the version the mutation set.
C37_NoStaleResultUnderNewVersion ==
    NoWriteInFlight =>
        /\ \A u \in Users : \A c \in stats_cache[u] :
                c.key[2] = stats_version[u] => CachedIsCurrent(u, c)
        /\ (response.op = "dashboard_statistics" /\ response.status = 200) =>
                response.detail =
                    calculate_dashboard_statistics(entries, vehicles, response.request[1],
                                                   response.request[2], response.request[3],
                                                   response.request[4], response.request[5])

\* ---------------------------------------------------------------------------
\* Writes whose transactions overlap
\* ---------------------------------------------------------------------------

\* C38: once the writes on a vehicle have committed, whether or not their
\* transactions overlapped, the stored derived fields are those a full rebuild
\* of the vehicle computes from the entries as they are: a full recalculation
\* would change no entry.
C38_OverlappingWritesEqualRebuild ==
    (NoWriteInFlight /\ response.op = "create_entry" /\ response.status = 201) =>
        \A v \in DOMAIN vehicles :
            recalculate_all_metrics_for_vehicle(entries, vehicles, v) = entries

\* The same for the entries of a vehicle that all have different dates and
\* odometers increasing with the date, where the order of the entries does
\* not depend on when they were created.
C38_OnDistinctDays ==
    (\A i, j \in DOMAIN entries :
        i # j => /\ entries[i].entry_date # entries[j].entry_date
                 /\ (entries[i].entry_date < entries[j].entry_date
                        => entries[i].odometer < entries[j].odometer))
        => C38_OverlappingWritesEqualRebuild

====
